---- MODULE Spec2Model ----
(***************************************************************************)
(* PixelServe cache layer (src/src/services/cache.ts): the in-memory       *)
(* LRUCache, the sharded disk cache, the getCached/setCache facade and     *)
(* the cleanup sweep, as a state machine over one worker process, its      *)
(* clock and the cache directory.                                          *)
(*                                                                         *)
(* Time is in milliseconds, as Date.now() and mtime.getTime() give it.     *)
(* Cache keys are sequences of characters so that key.substring(0, 2) can  *)
(* be computed; bytes are opaque tokens.                                   *)
(***************************************************************************)
EXTENDS Integers, Sequences, FiniteSets, TLC

---------------------------------------------------------------------------
(* Bounds of the model *)

\* the clock advances at most MaxTicks times, by ShortTickMs and LongTickMs in
\* turn: with a TTL of 15 s, entries of age below, at and above the TTL occur
ShortTickMs == 10000
LongTickMs == 15000
MaxTicks == 2

\* cache keys requests use: two in shard "ab", one in shard "cd"
Keys == { <<"a", "b", "1">>, <<"a", "b", "2">>, <<"c", "d", "1">> }
\* the keys requests use while the disk backend is active
DiskKeys == { <<"a", "b", "1">>, <<"a", "b", "2">> }
\* artifact bytes
Data == { "d1", "d2" }

\* configurations the process may be started with (config.ts:21-59)
CacheModes == { "disk", "memory", "hybrid", "none" }
CacheTTLs == { 15 }
MaxMemoryCacheItemsChoices == { 1, 2, 3 }
\* the find(1) the sweep's shell runs: GNU findutils, or BusyBox (the Alpine image)
FindImpls == { "gnu", "busybox" }

---------------------------------------------------------------------------
(* Program constants *)

MsPerSecond == 1000
SecondsPerMinute == 60

\* what a lookup returns for "no entry" (null)
Absent == "null"
NoKey == << >>
NoData == "-"

VARIABLES
  config,        \* the validated configuration, fixed at start-up
  now,           \* the clock: Date.now(), also the file system's clock
  findImpl,      \* which find(1) is installed, fixed at start-up
  memoryCache,   \* LRUCache.cache: the Map's entries in insertion order
  files,         \* the cache directory: path -> [data, mtime] of each regular file
  diskGet,       \* the getDiskCached call in flight, between its awaits
  pendingRm,     \* paths whose background "rm -f" has been started and not yet run
  sweep,         \* the disk cleanupCache call in flight, between its awaits
  lastOp,        \* the call that returned last, with what it returned
  touchOrder,    \* history: present keys and the call that touched each last, oldest first
  overwrote,     \* history: a set() has hit a present key since the table was empty
  lastWritten,   \* history: per key, the bytes of the last setCache that stored them
  requests,      \* the route handlers' requests in flight, with their detached cache writes
  cleanupInterval, \* the module variable cleanupInterval: the installed timer, or NoTimer
  timers,        \* the runtime's active interval timers
  timersCreated, \* how many timers setInterval has created so far
  timerSweeps,   \* cleanupCache calls started by a timer callback and not yet returned
  fetches,       \* the pipelines' remote fetches: per kind, how far it is and how long it has waited
  boot,          \* how many times the process has been restarted
  paramsA,       \* a parameter object handed to generateCacheKey, entries in insertion order
  paramsB,       \* a second parameter object
  keyLog,        \* history: the keys generateCacheKey returned, per object and process
  lastInfo,      \* the getCacheHeaders or getCacheStats call that returned last, with its result
  validation,    \* per caller, the validateUrl call in flight or returned last, between its awaits
  pipelines,     \* per request of /image, how far processImage is, what was thrown, the response
  fontCache,     \* fonts.ts fontCache: cache key -> font data
  loadingPromises, \* fonts.ts loadingPromises: cache key -> the load promise in flight
  loads,         \* the load promises created so far, each with the step it is at
  callers,       \* per caller of loadFontVariant, where the call is and what it returned
  workerCount,   \* cluster: the number of workers the master was started with
  workers,       \* cluster: the master's Map from worker id to process
  procs,         \* cluster: the worker processes spawned so far
  shuttingDown,  \* cluster: the master's shuttingDown flag
  master         \* cluster: whether the master process is running

\* the state of the route handlers
routeVars == << requests >>

\* the state of the cleanup timer
timerVars == << cleanupInterval, timers, timersCreated, timerSweeps >>

\* the font loader's state
fontVars == << fontCache, loadingPromises, loads, callers >>

\* the cluster master's state
clusterVars == << workerCount, workers, procs, shuttingDown, master >>

\* the state of the /image error path, the font loader and the cluster master
processVars == << pipelines, fontVars, clusterVars >>

\* the state of the services beside the cache
serviceVars == << fetches, boot, paramsA, paramsB, keyLog, lastInfo, validation, processVars >>

\* what the cache's own operations leave alone
otherVars == << routeVars, timerVars, serviceVars >>

vars == << config, now, findImpl, memoryCache, files, diskGet, pendingRm, sweep,
           lastOp, touchOrder, overwrote, lastWritten, otherVars >>

\* the cache's state with its histories
cacheVars == << config, now, findImpl, memoryCache, files, diskGet, pendingRm, sweep,
                lastOp, touchOrder, overwrote, lastWritten >>

memVars == << memoryCache, touchOrder, overwrote >>
diskVars == << files, diskGet, pendingRm, sweep >>

---------------------------------------------------------------------------
(* JavaScript Map, as the sequence of its entries in insertion order *)

MapKeys(c) == { c[i].key : i \in 1..Len(c) }

MapHas(c, key) == key \in MapKeys(c)

MapIndex(c, key) == CHOOSE i \in 1..Len(c) : c[i].key = key

MapGet(c, key) == c[MapIndex(c, key)]

MapDelete(c, key) == SelectSeq(c, LAMBDA e : e.key # key)

\* Map.prototype.set: a present key keeps its place, a new key goes last
MapSet(c, key, data, createdAt) ==
  LET entry == [key |-> key, data |-> data, createdAt |-> createdAt]
  IN  IF MapHas(c, key)
      THEN [c EXCEPT ![MapIndex(c, key)] = entry]
      ELSE Append(c, entry)

\* if (firstKey): undefined and the empty string are falsy
Truthy(key) == key # NoKey

ttlMs == config.cacheTTL * MsPerSecond

---------------------------------------------------------------------------
(* class LRUCache *)

\* variant of get: a hit returns the bytes and leaves the entry where it is
LRUGet_NoMoveToEnd(c, key, t) ==
  IF ~MapHas(c, key)
  THEN [cache |-> c, ret |-> Absent]
  ELSE LET entry == MapGet(c, key)
           age == t - entry.createdAt
       IN  IF age > ttlMs
           THEN [cache |-> MapDelete(c, key), ret |-> Absent]
           ELSE [cache |-> c, ret |-> entry.data]

\* variant of get: "age >= ttl" for "age > ttl"
LRUGet_ExpiresAtTTL(c, key, t) ==
  IF ~MapHas(c, key)
  THEN [cache |-> c, ret |-> Absent]
  ELSE LET entry == MapGet(c, key)
           age == t - entry.createdAt
       IN  IF age >= ttlMs
           THEN [cache |-> MapDelete(c, key), ret |-> Absent]
           ELSE [cache |-> Append(MapDelete(c, key), entry), ret |-> entry.data]

\* variant of get: a hit stores the entry again with the time of the read
LRUGet_RefreshesAge(c, key, t) ==
  IF ~MapHas(c, key)
  THEN [cache |-> c, ret |-> Absent]
  ELSE LET entry == MapGet(c, key)
           age == t - entry.createdAt
       IN  IF age > ttlMs
           THEN [cache |-> MapDelete(c, key), ret |-> Absent]
           ELSE [cache |-> Append(MapDelete(c, key), [entry EXCEPT !.createdAt = t]),
                 ret |-> entry.data]

\* get(key): the table after the call and the value returned
LRUGet(c, key, t) ==
  IF ~MapHas(c, key)
  THEN [cache |-> c, ret |-> Absent]
  ELSE LET entry == MapGet(c, key)
           age == t - entry.createdAt
       IN  IF age > ttlMs
           THEN [cache |-> MapDelete(c, key), ret |-> Absent]
           ELSE [cache |-> Append(MapDelete(c, key), entry), ret |-> entry.data]

\* variant of the loop: "size > maxItems" for "size >= maxItems"
RECURSIVE EvictOldest_OffByOne(_, _)
EvictOldest_OffByOne(c, maxItems) ==
  IF Len(c) > maxItems
  THEN IF Len(c) > 0 /\ Truthy(c[1].key)
       THEN EvictOldest_OffByOne(MapDelete(c, c[1].key), maxItems)
       ELSE c
  ELSE c

\* the while loop of set(): drop first keys while at capacity
RECURSIVE EvictOldest(_, _)
EvictOldest(c, maxItems) ==
  IF Len(c) >= maxItems
  THEN IF Len(c) > 0 /\ Truthy(c[1].key)
       THEN EvictOldest(MapDelete(c, c[1].key), maxItems)
       ELSE c
  ELSE c

\* variant of set() running that loop
LRUSet_OffByOne(c, key, data, t) ==
  MapSet(EvictOldest_OffByOne(c, config.maxMemoryCacheItems), key, data, t)

\* variant of set: at capacity the newest entry is dropped, not the oldest
LRUSet_EvictsNewest(c, key, data, t) ==
  MapSet(IF Len(c) >= config.maxMemoryCacheItems
         THEN SubSeq(c, 1, config.maxMemoryCacheItems - 1)
         ELSE c, key, data, t)

\* set(key, data)
LRUSet(c, key, data, t) ==
  MapSet(EvictOldest(c, config.maxMemoryCacheItems), key, data, t)

\* clear()
LRUClear(c) == << >>

\* size()
LRUSize(c) == Len(c)

\* the for loop of cleanup(): i is the iterator's position in the live table
RECURSIVE CleanupLoop(_, _, _, _)
CleanupLoop(c, i, t, removed) ==
  IF i > Len(c)
  THEN [cache |-> c, removed |-> removed]
  ELSE IF t - c[i].createdAt > ttlMs
       THEN CleanupLoop(MapDelete(c, c[i].key), i, t, removed + 1)
       ELSE CleanupLoop(c, i + 1, t, removed)

\* variant of the loop: the position advances after a deletion too, so the
\* entry that slid into the freed place is skipped
RECURSIVE CleanupLoop_Skips(_, _, _, _)
CleanupLoop_Skips(c, i, t, removed) ==
  IF i > Len(c)
  THEN [cache |-> c, removed |-> removed]
  ELSE IF t - c[i].createdAt > ttlMs
       THEN CleanupLoop_Skips(MapDelete(c, c[i].key), i + 1, t, removed + 1)
       ELSE CleanupLoop_Skips(c, i + 1, t, removed)

\* variant of cleanup() running that loop
LRUCleanup_Skips(c, t) == CleanupLoop_Skips(c, 1, t, 0)

\* cleanup()
LRUCleanup(c, t) == CleanupLoop(c, 1, t, 0)

---------------------------------------------------------------------------
(* Disk cache *)

\* key.substring(0, 2)
Shard(key) == SubSeq(key, 1, IF Len(key) < 2 THEN Len(key) ELSE 2)

\* variant of getCachePath: the file is named by the shard, not by the key
getCachePath_ShardOnly(key) == << Shard(key), Shard(key) >>

\* getCachePath(key): join(config.cacheDir, shard, key), below the cache root
getCachePath(key) == << Shard(key), key >>

FileExists(fs, path) == path \in DOMAIN fs

\* Bun.write(path, data): the whole file is replaced, its mtime is the write's time
WriteFile(fs, path, data, t) ==
  [q \in DOMAIN fs \cup {path} |->
     IF q = path THEN [data |-> data, mtime |-> t] ELSE fs[q]]

\* rm -f path
RemoveFile(fs, path) == [q \in DOMAIN fs \ {path} |-> fs[q]]

\* variant of the age test: the TTL is converted to milliseconds twice
DiskFresh_ConvertsTwice(age) == age < ttlMs * MsPerSecond

\* variant of the age test: the age in milliseconds against the TTL in seconds
DiskFresh_Seconds(age) == age < config.cacheTTL

\* the age test of getDiskCached: the file is served while this holds
DiskFresh(age) == age < ttlMs

\* Math.floor(config.cacheTTL / 60)
maxAgeMinutes == config.cacheTTL \div SecondsPerMinute

\* find -mmin +n on a file of the given age: GNU compares the mtime with
\* now - n minutes; BusyBox asks for at least n + 1 whole minutes
FindMminPlus(impl, ageMs, n) ==
  IF impl = "gnu"
  THEN ageMs > n * SecondsPerMinute * MsPerSecond
  ELSE ageMs >= (n * SecondsPerMinute + SecondsPerMinute) * MsPerSecond

\* find ${cacheDir} -type f -mmin +${maxAgeMinutes}
FindOldFiles(fs, t) ==
  { p \in DOMAIN fs : FindMminPlus(findImpl, t - fs[p].mtime, maxAgeMinutes) }

DiskGetIdle == [pc |-> "idle", key |-> NoKey, at |-> 0]
SweepIdle == [pc |-> "idle", oldFiles |-> {}, deleted |-> 0, failed |-> 0]

\* the slots for requests in flight, each an invocation of GET /image or GET /og
Reqs == { 1, 2 }

\* a slot with no request in it
ReqIdle ==
  [pc |-> "idle", key |-> NoKey, cached |-> Absent, buffer |-> NoData, status |-> 0,
   body |-> NoData, write |-> "none", last |-> FALSE, concurrent |-> FALSE]

\* cleanupInterval = null
NoTimer == [id |-> 0, intervalMs |-> 0]

\* the remote fetches of the pipelines: fetchImage for the source and for the
\* watermark, fetchFontCss, and the font file download of loadFontVariant
FetchKinds == { "source", "watermark", "fontCss", "fontFile" }

\* no getCacheHeaders or getCacheStats call has returned yet
NoInfo == [call |-> "none", arg |-> "", result |-> << >>]

\* the defaults of config.cacheDir and config.browserCacheTTL (one year)
DefaultCacheDir == "./cache"
DefaultBrowserCacheTTL == 31536000

\* no validateUrl call has been made
ValidationIdle ==
  [pc |-> "idle", url |-> "", hostname |-> << >>, lookups |-> 0, resolved |-> 0,
   result |-> "none"]

\* a fetch that has not been started
FetchIdle == [pc |-> "idle", timer |-> FALSE, waited |-> 0, outcome |-> "none"]

---------------------------------------------------------------------------
(* History kept beside the program state *)

\* key was touched by a call ("get" or "set"): it moves to the most recent end
Touch(order, key, by) ==
  Append(SelectSeq(order, LAMBDA e : e.key # key), [key |-> key, by |-> by])

\* the touch order restricted to the keys still present
Present(order, c) == SelectSeq(order, LAMBDA e : MapHas(c, e.key))

\* a file was deleted: the keys stored at that path have no stored bytes any more
Forget(written, path) ==
  [k \in DOMAIN written |-> IF getCachePath(k) = path THEN NoData ELSE written[k]]

Op(op, key, data, ret, count, removed, logged) ==
  [op |-> op, key |-> key, data |-> data, ret |-> ret, count |-> count,
   removed |-> removed, logged |-> logged]

---------------------------------------------------------------------------
(* Initial state: a freshly started process with an empty memory table and *)
(* an empty cache directory, under one of the given modes and item limits  *)

InitCacheWith(modes, items, browserTTLs, allowLists) ==
  /\ config \in [cacheMode : modes, cacheTTL : CacheTTLs, maxMemoryCacheItems : items,
                 browserCacheTTL : browserTTLs, cacheDir : { DefaultCacheDir },
                 allowedDomains : allowLists]
  /\ findImpl \in FindImpls
  \* the settings a mode never reads are left at one value
  /\ config.cacheMode # "memory" => \A n \in items : config.maxMemoryCacheItems <= n
  /\ config.cacheMode # "disk" => findImpl = "gnu"
  /\ now = 0
  /\ memoryCache = << >>
  /\ files = << >>
  /\ diskGet = DiskGetIdle
  /\ pendingRm = {}
  /\ sweep = SweepIdle
  /\ lastOp = Op("start", NoKey, NoData, Absent, 0, {}, FALSE)
  /\ touchOrder = << >>
  /\ overwrote = FALSE
  /\ lastWritten = [k \in Keys |-> NoData]
  /\ requests = [r \in Reqs |-> ReqIdle]
  /\ cleanupInterval = NoTimer
  /\ timers = {}
  /\ timersCreated = 0
  /\ timerSweeps = 0

\* the browser cache TTL at its default, no allowlist
InitCache(modes, items) == InitCacheWith(modes, items, { DefaultBrowserCacheTTL }, { << >> })

\* no pipeline has started a fetch
\* no error thrown, no response decided
NoError == [name |-> "none", statusCode |-> 0, code |-> ""]
NoResponse == [status |-> 0, error |-> ""]
PipelineIdle == [pc |-> "idle", thrown |-> NoError, rethrown |-> NoError,
                 response |-> NoResponse]

\* /image at rest
InitPipelines == pipelines = [r \in Reqs |-> PipelineIdle]

\* no load promise
NoLoad == 0
CallerIdle == [pc |-> "idle", key |-> "", load |-> NoLoad, result |-> "none"]

\* fonts.ts after module evaluation: three empty Maps, nobody calling
InitFonts ==
  /\ fontCache = << >>
  /\ loadingPromises = << >>
  /\ loads = << >>
  /\ callers = [c \in Reqs |-> CallerIdle]

\* config.clusterWorkers || navigator.hardwareConcurrency
WorkerCounts == { 1, 2 }

\* spawnWorker(id) up to workers.set(id, worker): a new process, running, stored
\* in the Map under its id
spawnWorker(cl, id) ==
  LET pid == Len(cl.procs) + 1
  IN  [workers |-> (id :> pid) @@ cl.workers,
       procs |-> Append(cl.procs, [id |-> id, status |-> "running", signalled |-> FALSE,
                                   exitCode |-> 0, replacement |-> 0])]

\* for (let i = 0; i < workerCount; i++) spawnWorker(i)
RECURSIVE SpawnAll(_, _, _)
SpawnAll(cl, i, n) == IF i < n THEN SpawnAll(spawnWorker(cl, i), i + 1, n) ELSE cl

\* the cluster master after module evaluation: every worker spawned
InitCluster(counts) ==
  /\ workerCount \in counts
  /\ LET cl == SpawnAll([workers |-> << >>, procs |-> << >>], 0, workerCount)
     IN  workers = cl.workers /\ procs = cl.procs
  /\ shuttingDown = FALSE
  /\ master = "running"

\* /image and the font loader at rest, a master with two workers
InitProcess == InitPipelines /\ InitFonts /\ InitCluster({ 2 })

InitServices ==
  /\ fetches = [k \in FetchKinds |-> FetchIdle]
  /\ boot = 0
  /\ paramsA = << >>
  /\ paramsB = << >>
  /\ keyLog = {}
  /\ lastInfo = NoInfo
  /\ validation = [r \in Reqs |-> ValidationIdle]
  /\ InitProcess

\* the cache after start-up with the services at rest
InitWith(modes, items) == InitCache(modes, items) /\ InitServices

---------------------------------------------------------------------------
(* Operations *)

\* the clock's reading after i ticks
RECURSIVE ClockAt(_)
ClockAt(i) ==
  IF i = 0 THEN 0
  ELSE ClockAt(i - 1) + (IF i % 2 = 1 THEN ShortTickMs ELSE LongTickMs)

\* the clock advances
Tick ==
  /\ \E i \in 0..(MaxTicks - 1) : now = ClockAt(i) /\ now' = ClockAt(i + 1)
  /\ UNCHANGED << otherVars, config, findImpl, memVars, diskVars, lastOp, lastWritten >>

\* getCached(key) in memory mode: getMemoryCached -> memoryCache.get
GetMemoryCached(key) ==
  /\ config.cacheMode = "memory"
  /\ LET r == LRUGet(memoryCache, key, now)
     IN  /\ memoryCache' = r.cache
         /\ lastOp' = Op("get", key, NoData, r.ret, 0,
                         MapKeys(memoryCache) \ MapKeys(r.cache), FALSE)
         /\ touchOrder' = Present(IF r.ret # Absent THEN Touch(touchOrder, key, "get")
                                                   ELSE touchOrder, r.cache)
         /\ overwrote' = (overwrote /\ r.cache # << >>)
  /\ UNCHANGED << otherVars, config, findImpl, now, diskVars, lastWritten >>

\* setCache(key, data) in memory mode: setMemoryCache -> memoryCache.set
SetMemoryCache(key, data) ==
  /\ config.cacheMode = "memory"
  /\ LET c == LRUSet(memoryCache, key, data, now)
     IN  /\ memoryCache' = c
         /\ lastOp' = Op("set", key, data, "void", 0,
                         MapKeys(memoryCache) \ MapKeys(c), FALSE)
         /\ touchOrder' = Present(Touch(touchOrder, key, "set"), c)
         /\ overwrote' = (overwrote \/ MapHas(memoryCache, key))
  /\ lastWritten' = [lastWritten EXCEPT ![key] = data]
  /\ UNCHANGED << otherVars, config, findImpl, now, diskVars >>

\* memoryCache.clear()
ClearMemory ==
  /\ config.cacheMode = "memory"
  /\ memoryCache' = LRUClear(memoryCache)
  /\ lastOp' = Op("clear", NoKey, NoData, "void", 0, MapKeys(memoryCache), FALSE)
  /\ touchOrder' = << >>
  /\ overwrote' = FALSE
  /\ UNCHANGED << otherVars, config, findImpl, now, diskVars, lastWritten >>

\* cleanupCache() in memory mode: memoryCache.cleanup()
CleanupMemory ==
  /\ config.cacheMode = "memory"
  /\ LET r == LRUCleanup(memoryCache, now)
     IN  /\ memoryCache' = r.cache
         /\ lastOp' = Op("cleanup", NoKey, NoData, "void", r.removed,
                         MapKeys(memoryCache) \ MapKeys(r.cache), FALSE)
         /\ touchOrder' = Present(touchOrder, r.cache)
         /\ overwrote' = (overwrote /\ r.cache # << >>)
  /\ UNCHANGED << otherVars, config, findImpl, now, diskVars, lastWritten >>

---------------------------------------------------------------------------
(* getDiskCached(key), one step per await *)

\* await file.exists()
GetDiskExists(key) ==
  /\ config.cacheMode = "disk"
  /\ diskGet.pc = "idle"
  /\ IF FileExists(files, getCachePath(key))
     THEN /\ diskGet' = [pc |-> "stat", key |-> key, at |-> 0]
          /\ UNCHANGED lastOp
     ELSE /\ diskGet' = DiskGetIdle
          /\ lastOp' = Op("get", key, NoData, Absent, 0, {}, FALSE)
  /\ UNCHANGED << otherVars, config, findImpl, now, memVars, files, pendingRm, sweep, lastWritten >>

\* await file.stat(), the age test, and the background rm of a stale file;
\* stat() of a file that has vanished throws into the catch
GetDiskStat ==
  /\ diskGet.pc = "stat"
  /\ LET path == getCachePath(diskGet.key)
     IN  IF ~FileExists(files, path)
         THEN /\ diskGet' = DiskGetIdle
              /\ lastOp' = Op("get", diskGet.key, NoData, Absent, 0, {}, FALSE)
              /\ UNCHANGED pendingRm
         ELSE IF DiskFresh(now - files[path].mtime)
              THEN /\ diskGet' = [diskGet EXCEPT !.pc = "read", !.at = now]
                   /\ UNCHANGED << lastOp, pendingRm >>
              ELSE /\ pendingRm' = pendingRm \cup {path}
                   /\ diskGet' = DiskGetIdle
                   /\ lastOp' = Op("get", diskGet.key, NoData, Absent, 0, {}, FALSE)
  /\ UNCHANGED << otherVars, config, findImpl, now, memVars, files, sweep, lastWritten >>

\* variant of the read: the error of reading a vanished file reaches the caller
GetDiskRead_Throws ==
  /\ diskGet.pc = "read"
  /\ LET path == getCachePath(diskGet.key)
     IN  lastOp' = Op("get", diskGet.key, NoData,
                      IF FileExists(files, path) THEN files[path].data ELSE "error",
                      0, {}, FALSE)
  /\ diskGet' = DiskGetIdle
  /\ UNCHANGED << otherVars, config, findImpl, now, memVars, files, pendingRm, sweep, lastWritten >>

\* await file.arrayBuffer(); reading a file that has vanished throws into the catch
GetDiskRead ==
  /\ diskGet.pc = "read"
  /\ LET path == getCachePath(diskGet.key)
     IN  lastOp' = Op("get", diskGet.key, NoData,
                      IF FileExists(files, path) THEN files[path].data ELSE Absent,
                      0, {}, FALSE)
  /\ diskGet' = DiskGetIdle
  /\ UNCHANGED << otherVars, config, findImpl, now, memVars, files, pendingRm, sweep, lastWritten >>

\* the background  rm -f ${path}  started by a stale read runs
BackgroundRm(path) ==
  /\ path \in pendingRm
  /\ pendingRm' = pendingRm \ {path}
  /\ files' = RemoveFile(files, path)
  /\ lastWritten' = Forget(lastWritten, path)
  /\ UNCHANGED << otherVars, config, findImpl, now, memVars, diskGet, sweep, lastOp >>

---------------------------------------------------------------------------
(* setDiskCache(key, data) *)

\* mkdir -p and Bun.write succeed
SetDiskCache(key, data) ==
  /\ config.cacheMode = "disk"
  /\ files' = WriteFile(files, getCachePath(key), data, now)
  /\ lastOp' = Op("set", key, data, "void", 0, {}, FALSE)
  /\ lastWritten' = [lastWritten EXCEPT ![key] = data]
  /\ UNCHANGED << otherVars, config, findImpl, now, memVars, diskGet, pendingRm, sweep >>

\* mkdir -p or Bun.write throws: the catch logs and the call returns normally
SetDiskCacheFails(key, data) ==
  /\ config.cacheMode = "disk"
  /\ lastOp' = Op("set", key, data, "void", 0, {}, TRUE)
  /\ UNCHANGED << otherVars, config, findImpl, now, memVars, diskVars, lastWritten >>

---------------------------------------------------------------------------
(* getCached / setCache in the modes without a backend *)

\* getCached(key): case "none" and default both return null
GetCachedNoBackend(key) ==
  /\ config.cacheMode \notin { "disk", "memory" }
  /\ lastOp' = Op("get", key, NoData, Absent, 0, {}, FALSE)
  /\ UNCHANGED << otherVars, config, findImpl, now, memVars, diskVars, lastWritten >>

\* variant of setCache without a backend: the bytes go to the memory table
SetCacheNoBackend_StoresInMemory(key, data) ==
  /\ config.cacheMode \notin { "disk", "memory" }
  /\ memoryCache' = LRUSet(memoryCache, key, data, now)
  /\ lastOp' = Op("set", key, data, "void", 0, {}, FALSE)
  /\ UNCHANGED << otherVars, config, findImpl, now, touchOrder, overwrote, diskVars, lastWritten >>

\* setCache(key, data): case "none" returns, "hybrid" matches no case
SetCacheNoBackend(key, data) ==
  /\ config.cacheMode \notin { "disk", "memory" }
  /\ lastOp' = Op("set", key, data, "void", 0, {}, FALSE)
  /\ UNCHANGED << otherVars, config, findImpl, now, memVars, diskVars, lastWritten >>

---------------------------------------------------------------------------
(* cleanupCache() outside memory mode *)

\* cacheMode "none": return 0
CleanupNone ==
  /\ config.cacheMode = "none"
  /\ lastOp' = Op("cleanup", NoKey, NoData, "void", 0, {}, FALSE)
  /\ UNCHANGED << otherVars, config, findImpl, now, memVars, diskVars, lastWritten >>

\* await find: the list of old files
CleanupFind ==
  /\ config.cacheMode \notin { "none", "memory" }
  /\ sweep.pc = "idle"
  /\ sweep' = [pc |-> "rm", oldFiles |-> FindOldFiles(files, now), deleted |-> 0,
                failed |-> 0]
  /\ UNCHANGED << otherVars, config, findImpl, now, memVars, files, diskGet, pendingRm,
                  lastOp, lastWritten >>

\* find throws (the cache directory does not exist yet, so it holds no file):
\* the outer catch ignores it; return deleted, which is 0
CleanupFindFails ==
  /\ config.cacheMode \notin { "none", "memory" }
  /\ sweep.pc = "idle"
  /\ DOMAIN files = {}
  /\ lastOp' = Op("cleanup", NoKey, NoData, "void", 0, {}, FALSE)
  /\ UNCHANGED << otherVars, config, findImpl, now, memVars, diskVars, lastWritten >>

\* await rm -f ${file} for one listed file; deleted++
CleanupRm(path) ==
  /\ sweep.pc = "rm"
  /\ path \in sweep.oldFiles
  /\ files' = RemoveFile(files, path)
  /\ sweep' = [sweep EXCEPT !.oldFiles = @ \ {path}, !.deleted = @ + 1]
  /\ lastWritten' = Forget(lastWritten, path)
  /\ UNCHANGED << otherVars, config, findImpl, now, memVars, diskGet, pendingRm, lastOp >>

\* variant without the inner try: the failure of one rm leaves the loop and
\* reaches the outer catch, and the sweep returns what it had deleted by then
CleanupRmFails_Aborts(path) ==
  /\ sweep.pc = "rm"
  /\ path \in sweep.oldFiles
  /\ sweep' = SweepIdle
  /\ lastOp' = Op("cleanup", NoKey, NoData, "void", sweep.deleted, {}, FALSE)
  /\ UNCHANGED << otherVars, config, findImpl, now, memVars, files, diskGet, pendingRm,
                  lastWritten >>

\* rm throws for one listed file: the inner catch ignores it
CleanupRmFails(path) ==
  /\ sweep.pc = "rm"
  /\ path \in sweep.oldFiles
  /\ sweep' = [sweep EXCEPT !.oldFiles = @ \ {path}, !.failed = @ + 1]
  /\ UNCHANGED << otherVars, config, findImpl, now, memVars, files, diskGet, pendingRm,
                  lastOp, lastWritten >>

\* return deleted
CleanupReturn ==
  /\ sweep.pc = "rm"
  /\ sweep.oldFiles = {}
  /\ sweep' = SweepIdle
  /\ lastOp' = Op("cleanup", NoKey, NoData, "void", sweep.deleted, {}, FALSE)
  /\ UNCHANGED << otherVars, config, findImpl, now, memVars, files, diskGet, pendingRm, lastWritten >>

AllPaths == { getCachePath(k) : k \in DiskKeys }

Next ==
  \/ Tick
  \/ \E key \in Keys : GetMemoryCached(key)
  \/ \E key \in Keys, data \in Data : SetMemoryCache(key, data)
  \/ ClearMemory
  \/ CleanupMemory
  \/ \E key \in DiskKeys : GetDiskExists(key)
  \/ GetDiskStat
  \/ GetDiskRead
  \/ \E path \in AllPaths : BackgroundRm(path)
  \/ \E key \in DiskKeys, data \in Data : SetDiskCache(key, data)
  \/ \E key \in DiskKeys, data \in Data : SetDiskCacheFails(key, data)
  \/ \E key \in Keys : GetCachedNoBackend(key)
  \/ \E key \in Keys, data \in Data : SetCacheNoBackend(key, data)
  \/ CleanupNone
  \/ CleanupFind
  \/ CleanupFindFails
  \/ \E path \in AllPaths : CleanupRm(path)
  \/ \E path \in AllPaths : CleanupRmFails(path)
  \/ CleanupReturn

\* every mode, the memory table limited to two items
Init == InitWith(CacheModes, { 2 })

Spec == Init /\ [][Next]_vars

\* the memory backend alone, under every item limit of the model
InitMemory == InitWith({ "memory" }, MaxMemoryCacheItemsChoices)

NextMemory ==
  \/ Tick
  \/ \E key \in Keys : GetMemoryCached(key)
  \/ \E key \in Keys, data \in Data : SetMemoryCache(key, data)
  \/ ClearMemory
  \/ CleanupMemory

SpecMemory == InitMemory /\ [][NextMemory]_vars

---------------------------------------------------------------------------
(* Steps of the calls, for the properties below.  A call that returns leaves  *)
(* its name, key and result in lastOp.                                        *)

\* this step is memoryCache.get(lastOp'.key) returning lastOp'.ret
MemoryGetStep == lastOp'.op = "get" /\ GetMemoryCached(lastOp'.key)

\* this step is memoryCache.set(lastOp'.key, lastOp'.data)
MemorySetStep == lastOp'.op = "set" /\ SetMemoryCache(lastOp'.key, lastOp'.data)

\* this step is getDiskCached(lastOp'.key) returning lastOp'.ret
DiskGetStep ==
  /\ lastOp'.op = "get"
  /\ diskGet'.pc = "idle"
  /\ \/ GetDiskExists(lastOp'.key)
     \/ diskGet.key = lastOp'.key /\ GetDiskStat
     \/ diskGet.key = lastOp'.key /\ GetDiskRead

\* this step is getCached(lastOp'.key) returning lastOp'.ret, whatever the mode
GetCachedStep ==
  \/ MemoryGetStep
  \/ DiskGetStep
  \/ lastOp'.op = "get" /\ GetCachedNoBackend(lastOp'.key)

\* the age of the file at path, if there is one
FileAge(path) == now - files[path].mtime

\* the age of the memory entry of key, if there is one
EntryAge(key) == now - MapGet(memoryCache, key).createdAt

---------------------------------------------------------------------------
(* C1 *)

\* C1: in both backends a lookup never returns the bytes of an entry older
\* than the TTL.  Memory: an entry whose age exceeds the TTL is reported
\* absent, and bytes returned are those of an entry no older than the TTL.
\* Disk: a file whose age exceeds the TTL at the age test is reported absent
\* by that step, and the bytes a read returns are those of a file that is no
\* older than the TTL at the time of the call's age test.
C1_ExpiredNeverReturned ==
  [][ /\ MemoryGetStep =>
           LET key == lastOp'.key
           IN  /\ (MapHas(memoryCache, key) /\ EntryAge(key) > ttlMs)
                    => lastOp'.ret = Absent
               /\ lastOp'.ret # Absent
                    => /\ MapHas(memoryCache, key)
                       /\ lastOp'.ret = MapGet(memoryCache, key).data
                       /\ EntryAge(key) <= ttlMs
      /\ (GetDiskStat /\ FileExists(files, getCachePath(diskGet.key))
            /\ FileAge(getCachePath(diskGet.key)) > ttlMs)
           => (diskGet'.pc = "idle" /\ lastOp'.op = "get" /\ lastOp'.ret = Absent)
      /\ (GetDiskRead /\ lastOp'.ret # Absent)
           => /\ FileExists(files, getCachePath(diskGet.key))
              /\ lastOp'.ret = files[getCachePath(diskGet.key)].data
              /\ diskGet.at - files[getCachePath(diskGet.key)].mtime <= ttlMs
    ]_vars

\* a disk lookup has just reported a file older than the TTL absent
C1_Witness ==
  /\ config.cacheMode = "disk"
  /\ lastOp.op = "get"
  /\ lastOp.ret = Absent
  /\ FileExists(files, getCachePath(lastOp.key))
  /\ FileAge(getCachePath(lastOp.key)) > ttlMs
  /\ getCachePath(lastOp.key) \in pendingRm

---------------------------------------------------------------------------
(* C2 *)

\* C2 as stated: when the call that returned last is setCache(K, bytes), a
\* getCached(K) that returns next gives absent or exactly those bytes.
C2_MostRecentCompletedSet ==
  [][ (GetCachedStep /\ lastOp.op = "set" /\ lastOp.key = lastOp'.key)
        => lastOp'.ret \in { Absent, lastOp.data }
    ]_vars

\* C2, amended: getCached(K) returns absent or exactly the bytes of the most
\* recent setCache(K, ...) that stored its bytes; never bytes stored under
\* another key, and absent for a key that no setCache has stored.
C2_KeyIsolation ==
  [][ GetCachedStep
        => \/ lastOp'.ret = Absent
           \/ /\ lastWritten[lastOp'.key] \in Data
              /\ lastOp'.ret = lastWritten[lastOp'.key]
    ]_vars

\* a disk lookup has returned the bytes of its key while the other key of the
\* shard holds different bytes
C2_Witness ==
  /\ config.cacheMode = "disk"
  /\ lastOp.op = "get"
  /\ lastOp.ret \in Data
  /\ \E other \in DiskKeys :
       /\ other # lastOp.key
       /\ FileExists(files, getCachePath(other))
       /\ files[getCachePath(other)].data # lastOp.ret

---------------------------------------------------------------------------
(* C3 *)

\* C3: disk round trip.  When setCache(key, bytes) has written its bytes and
\* nothing has touched the file of that key since, a lookup of the key that
\* returns before the TTL has elapsed returns exactly those bytes.
C3_DiskRoundTrip ==
  [][ ( /\ DiskGetStep
        /\ lastWritten[lastOp'.key] \in Data
        /\ FileExists(files, getCachePath(lastOp'.key))
             => FileAge(getCachePath(lastOp'.key)) < ttlMs )
        => lastOp'.ret = lastWritten[lastOp'.key]
    ]_vars

\* a disk lookup has returned bytes written some time earlier
C3_Witness ==
  /\ config.cacheMode = "disk"
  /\ lastOp.op = "get"
  /\ lastOp.ret \in Data
  /\ lastOp.ret = lastWritten[lastOp.key]
  /\ FileExists(files, getCachePath(lastOp.key))
  /\ FileAge(getCachePath(lastOp.key)) > 0

---------------------------------------------------------------------------
(* C4 *)

\* C4: memory LRU eviction.  While every set() so far has inserted a key that
\* was not present, a set() of a new key below the item limit removes nothing,
\* and a set() of a new key at the item limit N leaves exactly N entries and
\* removes exactly the entry least recently touched by insertion or lookup.
C4_EvictsLeastRecentlyTouched ==
  [][ (MemorySetStep /\ ~MapHas(memoryCache, lastOp'.key) /\ ~overwrote)
        => IF Len(memoryCache) < config.maxMemoryCacheItems
           THEN MapKeys(memoryCache') = MapKeys(memoryCache) \cup { lastOp'.key }
           ELSE /\ Len(memoryCache') = config.maxMemoryCacheItems
                /\ MapKeys(memoryCache') =
                     (MapKeys(memoryCache) \ { touchOrder[1].key }) \cup { lastOp'.key }
    ]_vars

\* the third distinct key has just been inserted into a table of two, the
\* survivor having been looked up after the evicted entry was inserted
C4_Witness ==
  /\ config.maxMemoryCacheItems = 2
  /\ ~overwrote
  /\ lastOp.op = "set"
  /\ Cardinality(lastOp.removed) = 1
  /\ Len(memoryCache) = 2
  /\ touchOrder[1].by = "get"

---------------------------------------------------------------------------
(* C5 *)

\* C5: the memory table never holds more than the configured item count, and
\* set() never rejects a write: after set(key, bytes) the key is present with
\* those bytes.
C5_SizeBound ==
  /\ LRUSize(memoryCache) <= config.maxMemoryCacheItems
  /\ lastOp.op = "set" =>
       /\ MapHas(memoryCache, lastOp.key)
       /\ MapGet(memoryCache, lastOp.key).data = lastOp.data

\* a set() into a full table of two or more has just evicted an entry
C5_Witness ==
  /\ config.maxMemoryCacheItems >= 2
  /\ LRUSize(memoryCache) = config.maxMemoryCacheItems
  /\ lastOp.op = "set"
  /\ lastOp.removed # {}

---------------------------------------------------------------------------
(* C6 *)

\* C6: a get() that hits makes its key the most recently used: as long as its
\* last touch is that lookup, every entry touched before it stands ahead of it
\* in the eviction order, so later inserts evict those first.
C6_HitIsMostRecent ==
  \A i, j \in 1..Len(touchOrder) :
    (i < j /\ touchOrder[j].by = "get")
      => /\ MapHas(memoryCache, touchOrder[i].key)
         /\ MapHas(memoryCache, touchOrder[j].key)
         /\ MapIndex(memoryCache, touchOrder[i].key)
              < MapIndex(memoryCache, touchOrder[j].key)

\* an insert has just evicted the entry that was not looked up, and the entry
\* that was looked up, though inserted first, is still there
C6_Witness ==
  /\ lastOp.op = "set"
  /\ lastOp.removed # {}
  /\ Len(memoryCache) = 2
  /\ touchOrder[1].by = "get"
  /\ touchOrder[1].key = memoryCache[1].key
  /\ memoryCache[1].createdAt < memoryCache[2].createdAt

---------------------------------------------------------------------------
(* C7 *)

\* C7: a key that set() has just written is never the next entry chosen for
\* eviction (the first of the table) while another entry is present.
C7_JustWrittenNotNextEvicted ==
  (lastOp.op = "set" /\ Len(memoryCache) > 1)
    => memoryCache[1].key # lastOp.key

---------------------------------------------------------------------------
(* C8 *)

\* C8: memory lazy expiry.  A get() that finds an entry older than the TTL
\* returns absent and removes it, so size() drops by one; a get() that finds
\* an entry of age at most the TTL returns its bytes and size() is unchanged.
C8_LazyExpiry ==
  [][ (MemoryGetStep /\ MapHas(memoryCache, lastOp'.key))
        => IF EntryAge(lastOp'.key) > ttlMs
           THEN /\ lastOp'.ret = Absent
                /\ ~MapHas(memoryCache', lastOp'.key)
                /\ LRUSize(memoryCache') = LRUSize(memoryCache) - 1
           ELSE /\ lastOp'.ret = MapGet(memoryCache, lastOp'.key).data
                /\ LRUSize(memoryCache') = LRUSize(memoryCache)
    ]_vars

\* a get() has just removed the expired entry of its key and left another
C8_Witness ==
  /\ lastOp.op = "get"
  /\ lastOp.ret = Absent
  /\ lastOp.removed = { lastOp.key }
  /\ LRUSize(memoryCache) >= 1

---------------------------------------------------------------------------
(* C9 *)

\* C9: cleanup() removes exactly the entries older than the TTL, returns how
\* many it removed, and leaves the other entries, with their bytes, creation
\* times and relative order, as they were.
C9_CleanupExact ==
  [][ (lastOp'.op = "cleanup" /\ CleanupMemory)
        => /\ memoryCache' =
                SelectSeq(memoryCache, LAMBDA e : now - e.createdAt <= ttlMs)
           /\ lastOp'.count = Len(memoryCache) - Len(memoryCache')
    ]_vars

\* a cleanup() has just removed two entries and kept one
C9_Witness ==
  /\ lastOp.op = "cleanup"
  /\ lastOp.count = 2
  /\ Cardinality(lastOp.removed) = 2
  /\ Len(memoryCache) = 1

---------------------------------------------------------------------------
(* C10 *)

\* C10: a disk lookup returns absent only when the file does not exist or its
\* age exceeds the TTL.
C10_AbsentOnlyIfMissingOrOlder ==
  [][ (DiskGetStep /\ lastOp'.ret = Absent)
        => \/ ~FileExists(files, getCachePath(lastOp'.key))
           \/ FileAge(getCachePath(lastOp'.key)) > ttlMs
    ]_vars

---------------------------------------------------------------------------
(* C11 *)

\* C11: disk expiry on both paths.  When a lookup has just reported an existing
\* file older than the TTL absent and cleanupCache() runs next, with the file
\* still there and not rewritten, the sweep's find lists the file, and the rm
\* of a listed file removes it from the directory.
C11_ExpiredFileSwept ==
  [][ /\ ( /\ CleanupFind
           /\ lastOp.op = "get"
           /\ lastOp.ret = Absent
           /\ FileExists(files, getCachePath(lastOp.key))
           /\ FileAge(getCachePath(lastOp.key)) > ttlMs )
          => getCachePath(lastOp.key) \in sweep'.oldFiles
      /\ \A path \in AllPaths : CleanupRm(path) => ~FileExists(files', path)
    ]_vars

---------------------------------------------------------------------------
(* C12 *)

\* C12: the disk sweep deletes only expired files: a file that cleanupCache()
\* removes has, at the time of its removal, an age of at least the TTL.
C12_SweepDeletesOnlyExpired ==
  [][ \A path \in AllPaths :
        (CleanupRm(path) /\ FileExists(files, path)) => FileAge(path) >= ttlMs
    ]_vars

---------------------------------------------------------------------------
(* C13 *)

\* C13: in cache mode none every getCached returns absent, whatever setCache
\* calls came before, and a setCache changes neither the memory table nor any
\* file of the cache directory.
C13_NoneStoresNothing ==
  [][ config.cacheMode = "none"
        => /\ lastOp'.op = "get" => lastOp'.ret = Absent
           /\ (lastOp'.op = "set" /\ SetCacheNoBackend(lastOp'.key, lastOp'.data))
                => (memoryCache' = memoryCache /\ files' = files)
           /\ memoryCache' = << >>
           /\ files' = << >>
    ]_vars

\* in mode none a setCache has returned, some time after start-up, and nothing
\* is stored
C13_Witness ==
  /\ config.cacheMode = "none"
  /\ lastOp.op = "set"
  /\ lastOp.data \in Data
  /\ now > 0
  /\ memoryCache = << >>
  /\ files = << >>

---------------------------------------------------------------------------
(* C15 *)

\* C15: however a disk lookup interleaves with deletions of its file (the
\* background rm of a stale read, the sweep's rm), it returns the bytes the
\* file holds or absent; a file that is gone at the stat or at the read gives
\* absent, never an error.
C15_RaceWithDeletionIsMiss ==
  [][ DiskGetStep
        => LET path == getCachePath(lastOp'.key)
           IN  /\ \/ lastOp'.ret = Absent
                  \/ FileExists(files, path) /\ lastOp'.ret = files[path].data
               /\ ~FileExists(files, path) => lastOp'.ret = Absent
    ]_vars

\* a lookup has passed the existence check and the age test, and its file has
\* been deleted before the read
C15_Witness ==
  /\ diskGet.pc = "read"
  /\ ~FileExists(files, getCachePath(diskGet.key))

---------------------------------------------------------------------------
(* The request handlers: GET /image (routes/image.ts) and GET /og           *)
(* (routes/og.ts).  Both compute the cache key, await getCached, answer a   *)
(* hit from the cache, and on a miss await the pipeline, start setCache      *)
(* without awaiting it, and answer with the fresh bytes.  A request is one   *)
(* slot of requests; its steps are the handler's runs between awaits.  The   *)
(* requests' own records hold what each call returned, so the histories of   *)
(* the cache specifications (lastOp, touchOrder, overwrote, lastWritten)     *)
(* are not kept here.                                                        *)

\* HTTP status of a served artifact
StatusOk == 200
\* statusCode of the errors the pipelines throw: ValidationError, ImageProcessingError
PipelineFailureStatuses == { 400, 422 }

\* request o has missed on the key of request r and its write has not settled
Racing(reqs, o, r) ==
  /\ o # r
  /\ reqs[o].key = reqs[r].key
  /\ \/ reqs[o].pc = "pipeline"
     \/ reqs[o].pc = "done" /\ reqs[o].write = "pending"

\* the bytes of request r have been stored: r is the last writer of its key,
\* and it has missed concurrently with every request racing with it
Stored(reqs, r) ==
  [q \in Reqs |->
     IF q = r
     THEN [reqs[r] EXCEPT !.write = "stored", !.last = TRUE,
                          !.concurrent = @ \/ \E o \in Reqs : Racing(reqs, o, r)]
     ELSE IF reqs[q].key = reqs[r].key
          THEN [reqs[q] EXCEPT !.last = FALSE,
                               !.concurrent = @ \/ Racing(reqs, q, r)]
          ELSE reqs[q]]

\* the handler answers a hit: new Response(cached, { headers })
RespondHit(req, cached) ==
  [req EXCEPT !.pc = "done", !.cached = cached, !.status = StatusOk, !.body = cached]

\* the handler has missed and calls the pipeline
Miss(req) == [req EXCEPT !.pc = "pipeline", !.cached = Absent]

\* what the cache holds for key: the bytes a lookup would find stored
CacheHolds(key) ==
  IF config.cacheMode = "memory"
  THEN IF MapHas(memoryCache, key) THEN MapGet(memoryCache, key).data ELSE Absent
  ELSE IF FileExists(files, getCachePath(key))
       THEN files[getCachePath(key)].data ELSE Absent

\* a request arrives: generateCacheKey, then await getCached(cacheKey).  The
\* memory lookup runs at once; the disk lookup suspends at file.exists()
HandlerGetCached(r, key) ==
  /\ requests[r].pc = "idle"
  /\ LET req == [ReqIdle EXCEPT !.key = key]
     IN  CASE config.cacheMode = "memory" ->
                LET res == LRUGet(memoryCache, key, now)
                IN  /\ memoryCache' = res.cache
                    /\ requests' = [requests EXCEPT ![r] =
                                      IF res.ret # Absent THEN RespondHit(req, res.ret)
                                                          ELSE Miss(req)]
            [] config.cacheMode = "disk" ->
                /\ requests' = [requests EXCEPT ![r] = [req EXCEPT !.pc = "exists"]]
                /\ UNCHANGED memoryCache
            [] OTHER ->
                /\ requests' = [requests EXCEPT ![r] = Miss(req)]
                /\ UNCHANGED memoryCache
  /\ UNCHANGED << timerVars, serviceVars, config, findImpl, now, touchOrder, overwrote, diskVars,
                  lastOp, lastWritten >>

\* getDiskCached: await file.exists()
HandlerDiskExists(r) ==
  /\ requests[r].pc = "exists"
  /\ requests' = [requests EXCEPT ![r] =
                    IF FileExists(files, getCachePath(@.key))
                    THEN [@ EXCEPT !.pc = "stat"] ELSE Miss(@)]
  /\ UNCHANGED << timerVars, serviceVars, config, findImpl, now, memVars, diskVars, lastOp, lastWritten >>

\* getDiskCached: await file.stat(), the age test, the background rm of a stale file
HandlerDiskStat(r) ==
  /\ requests[r].pc = "stat"
  /\ LET path == getCachePath(requests[r].key)
     IN  IF ~FileExists(files, path)
         THEN /\ requests' = [requests EXCEPT ![r] = Miss(@)]
              /\ UNCHANGED pendingRm
         ELSE IF DiskFresh(now - files[path].mtime)
              THEN /\ requests' = [requests EXCEPT ![r].pc = "read"]
                   /\ UNCHANGED pendingRm
              ELSE /\ pendingRm' = pendingRm \cup {path}
                   /\ requests' = [requests EXCEPT ![r] = Miss(@)]
  /\ UNCHANGED << timerVars, serviceVars, config, findImpl, now, memVars, files, diskGet, sweep,
                  lastOp, lastWritten >>

\* variant of the read: a hit is not answered from the cache, the pipeline runs
HandlerDiskRead_RunsPipeline(r) ==
  /\ requests[r].pc = "read"
  /\ LET path == getCachePath(requests[r].key)
     IN  requests' = [requests EXCEPT ![r] =
                        IF FileExists(files, path)
                        THEN [Miss(@) EXCEPT !.cached = files[path].data]
                        ELSE Miss(@)]
  /\ UNCHANGED << timerVars, serviceVars, config, findImpl, now, memVars, diskVars, lastOp, lastWritten >>

\* getDiskCached: await file.arrayBuffer(), then the handler's  if (cached)
HandlerDiskRead(r) ==
  /\ requests[r].pc = "read"
  /\ LET path == getCachePath(requests[r].key)
     IN  requests' = [requests EXCEPT ![r] =
                        IF FileExists(files, path)
                        THEN RespondHit(@, files[path].data) ELSE Miss(@)]
  /\ UNCHANGED << timerVars, serviceVars, config, findImpl, now, memVars, diskVars, lastOp, lastWritten >>

\* the pipeline returns bytes: setCache(cacheKey, buffer, format).catch(...) is
\* started and not awaited, and the handler answers with the buffer.  The
\* memory write is done when setCache returns; the disk write is left pending
HandlerPipelineOk(r, data) ==
  /\ requests[r].pc = "pipeline"
  /\ LET req == [requests[r] EXCEPT !.pc = "done", !.buffer = data,
                                    !.status = StatusOk, !.body = data]
         reqs == [requests EXCEPT ![r] = req]
     IN  CASE config.cacheMode = "memory" ->
                /\ memoryCache' = LRUSet(memoryCache, req.key, data, now)
                /\ requests' = Stored(reqs, r)
            [] config.cacheMode = "disk" ->
                /\ requests' = [reqs EXCEPT ![r].write = "pending"]
                /\ UNCHANGED memoryCache
            [] OTHER ->
                /\ requests' = [reqs EXCEPT ![r].write = "dropped"]
                /\ UNCHANGED memoryCache
  /\ UNCHANGED << timerVars, serviceVars, config, findImpl, now, touchOrder, overwrote, diskVars,
                  lastOp, lastWritten >>

\* variant of the failing pipeline: the handler caches what it has before failing
HandlerPipelineFails_Caches(r, status) ==
  /\ requests[r].pc = "pipeline"
  /\ requests' = [requests EXCEPT ![r].pc = "done", ![r].status = status,
                                  ![r].write = "pending"]
  /\ UNCHANGED << timerVars, serviceVars, config, findImpl, now, memVars, diskVars, lastOp, lastWritten >>

\* the pipeline throws: the handler ends there and onError answers with the
\* error's status; setCache is never reached
HandlerPipelineFails(r, status) ==
  /\ requests[r].pc = "pipeline"
  /\ requests' = [requests EXCEPT ![r].pc = "done", ![r].status = status]
  /\ UNCHANGED << timerVars, serviceVars, config, findImpl, now, memVars, diskVars, lastOp, lastWritten >>

\* the detached setDiskCache finishes: mkdir -p and Bun.write succeed
DetachedWriteDone(r) ==
  /\ requests[r].write = "pending"
  /\ files' = WriteFile(files, getCachePath(requests[r].key), requests[r].buffer, now)
  /\ requests' = Stored(requests, r)
  /\ UNCHANGED << timerVars, serviceVars, config, findImpl, now, memVars, diskGet, pendingRm, sweep,
                  lastOp, lastWritten >>

\* variant of the failing write: the failure reaches the request's response
DetachedWriteFails_Propagates(r) ==
  /\ requests[r].write = "pending"
  /\ requests' = [requests EXCEPT ![r].write = "failed", ![r].status = 500,
                                  ![r].body = NoData]
  /\ UNCHANGED << timerVars, serviceVars, config, findImpl, now, memVars, diskVars, lastOp, lastWritten >>

\* the detached setDiskCache fails: its catch logs "Cache write failed" and the
\* promise resolves, so the handler's .catch has nothing to handle
DetachedWriteFails(r) ==
  /\ requests[r].write = "pending"
  /\ requests' = [requests EXCEPT ![r].write = "failed"]
  /\ UNCHANGED << timerVars, serviceVars, config, findImpl, now, memVars, diskVars, lastOp, lastWritten >>

\* the response has been delivered and the write has settled: the slot is free
HandlerFinish(r) ==
  /\ requests[r].pc = "done"
  /\ requests[r].write # "pending"
  /\ requests' = [requests EXCEPT ![r] = ReqIdle]
  /\ UNCHANGED << timerVars, serviceVars, config, findImpl, now, memVars, diskVars, lastOp, lastWritten >>

NextRoutes ==
  \/ Tick
  \/ \E r \in Reqs, key \in DiskKeys : HandlerGetCached(r, key)
  \/ \E r \in Reqs : HandlerDiskExists(r)
  \/ \E r \in Reqs : HandlerDiskStat(r)
  \/ \E r \in Reqs : HandlerDiskRead(r)
  \/ \E r \in Reqs, data \in Data : HandlerPipelineOk(r, data)
  \/ \E r \in Reqs, status \in PipelineFailureStatuses : HandlerPipelineFails(r, status)
  \/ \E r \in Reqs : DetachedWriteDone(r)
  \/ \E r \in Reqs : DetachedWriteFails(r)
  \/ \E path \in AllPaths : BackgroundRm(path)
  \/ \E r \in Reqs : HandlerFinish(r)

\* the handlers over every cache mode
SpecRoutes == Init /\ [][NextRoutes]_vars

---------------------------------------------------------------------------
(* C14 *)

\* C14: a failing cache write is never propagated: the request whose detached
\* setCache failed has been answered with status 200 and the bytes the
\* pipeline produced, and stays so.
C14_WriteFailureNotPropagated ==
  \A r \in Reqs :
    requests[r].write = "failed"
      => /\ requests[r].pc = "done"
         /\ requests[r].status = StatusOk
         /\ requests[r].buffer \in Data
         /\ requests[r].body = requests[r].buffer

\* the detached write of an answered request has failed
C14_Witness ==
  \E r \in Reqs :
    /\ requests[r].write = "failed"
    /\ requests[r].status = StatusOk
    /\ requests[r].body \in Data

---------------------------------------------------------------------------
(* C16 *)

\* C16: the pipeline runs only on a miss: a request to which getCached returned
\* bytes is answered with exactly those bytes, has not run the pipeline and has
\* not called setCache; a request in the pipeline has missed.
C16_PipelineOnlyOnMiss ==
  \A r \in Reqs :
    /\ requests[r].cached # Absent
         => /\ requests[r].pc = "done"
            /\ requests[r].status = StatusOk
            /\ requests[r].body = requests[r].cached
            /\ requests[r].buffer = NoData
            /\ requests[r].write = "none"
    /\ (requests[r].pc = "pipeline" \/ requests[r].buffer # NoData)
         => requests[r].cached = Absent

\* a request has been answered from the disk cache
C16_Witness ==
  \E r \in Reqs :
    /\ config.cacheMode = "disk"
    /\ requests[r].pc = "done"
    /\ requests[r].cached \in Data
    /\ requests[r].body = requests[r].cached

---------------------------------------------------------------------------
(* C17 *)

\* C17: setCache is called only with the output of a pipeline that returned:
\* a request whose pipeline fails changes neither the memory table nor any
\* file and starts no write, and every write a request has started carries the
\* bytes its pipeline returned.
C17_NoWriteOnPipelineFailure ==
  [][ \A r \in Reqs :
        /\ (requests[r].pc = "pipeline" /\ requests'[r].status \in PipelineFailureStatuses)
             => /\ memoryCache' = memoryCache
                /\ files' = files
                /\ requests'[r].write = "none"
        /\ requests'[r].write # "none"
             => /\ requests'[r].buffer \in Data
                /\ requests'[r].status = StatusOk
    ]_vars

\* a request's pipeline has failed while the cache holds bytes for its key
C17_Witness ==
  \E r \in Reqs :
    /\ requests[r].pc = "done"
    /\ requests[r].status \in PipelineFailureStatuses
    /\ requests[r].write = "none"
    /\ CacheHolds(requests[r].key) \in Data

---------------------------------------------------------------------------
(* C18 *)

\* C18: when two requests have missed on the same key concurrently and both
\* of their writes have been stored, the cache holds exactly the bytes of the
\* write that was stored last.
C18_LastWriterWins ==
  \A r1, r2 \in Reqs :
    ( /\ r1 # r2
      /\ requests[r1].key = requests[r2].key
      /\ requests[r1].concurrent /\ requests[r2].concurrent
      /\ requests[r1].write = "stored" /\ requests[r2].write = "stored"
      /\ requests[r1].last )
      => CacheHolds(requests[r1].key) = requests[r1].buffer

---------------------------------------------------------------------------
(* The cleanup timer: startCacheCleanup, stopCacheCleanup and the callback  *)
(* setInterval runs.  A timer may fire whenever it is installed (its        *)
(* interval is not measured against the clock).  Nothing writes the cache   *)
(* here, so every sweep finds nothing to remove and returns 0.  In lastOp,  *)
(* count holds the intervalMs argument of a startCacheCleanup call.         *)

\* setInterval is called at most this many times
MaxTimers == 3
\* at most this many timer-started cleanupCache calls are in progress at once
MaxTimerSweeps == 2

\* the intervalMs arguments: one minute, and the hour index.ts passes
IntervalChoices == { 60000, 3600000 }

\* variant of startCacheCleanup without the  if (cleanupInterval) return
StartCacheCleanup_NoGuard(intervalMs) ==
  /\ lastOp' = Op("startCacheCleanup", NoKey, NoData, "void", intervalMs, {}, FALSE)
  /\ IF config.cacheMode = "none"
     THEN UNCHANGED timerVars
     ELSE /\ timersCreated < MaxTimers
          /\ LET t == [id |-> timersCreated + 1, intervalMs |-> intervalMs]
             IN  /\ cleanupInterval' = t
                 /\ timers' = timers \cup {t}
          /\ timersCreated' = timersCreated + 1
          /\ UNCHANGED timerSweeps
  /\ UNCHANGED << routeVars, serviceVars, config, findImpl, now, memVars, diskVars, lastWritten >>

\* startCacheCleanup(intervalMs)
StartCacheCleanup(intervalMs) ==
  /\ lastOp' = Op("startCacheCleanup", NoKey, NoData, "void", intervalMs, {}, FALSE)
  /\ IF cleanupInterval # NoTimer \/ config.cacheMode = "none"
     THEN UNCHANGED timerVars
     ELSE /\ timersCreated < MaxTimers
          /\ LET t == [id |-> timersCreated + 1, intervalMs |-> intervalMs]
             IN  /\ cleanupInterval' = t
                 /\ timers' = timers \cup {t}
          /\ timersCreated' = timersCreated + 1
          /\ UNCHANGED timerSweeps
  /\ UNCHANGED << routeVars, serviceVars, config, findImpl, now, memVars, diskVars, lastWritten >>

\* variant of stopCacheCleanup: the variable is reset, clearInterval is not called
StopCacheCleanup_KeepsTimer ==
  /\ lastOp' = Op("stopCacheCleanup", NoKey, NoData, "void", 0, {}, FALSE)
  /\ cleanupInterval' = NoTimer
  /\ UNCHANGED << timers, timersCreated, timerSweeps >>
  /\ UNCHANGED << routeVars, serviceVars, config, findImpl, now, memVars, diskVars, lastWritten >>

\* stopCacheCleanup()
StopCacheCleanup ==
  /\ lastOp' = Op("stopCacheCleanup", NoKey, NoData, "void", 0, {}, FALSE)
  /\ IF cleanupInterval # NoTimer
     THEN /\ timers' = timers \ {cleanupInterval}
          /\ cleanupInterval' = NoTimer
     ELSE UNCHANGED << timers, cleanupInterval >>
  /\ UNCHANGED << timersCreated, timerSweeps >>
  /\ UNCHANGED << routeVars, serviceVars, config, findImpl, now, memVars, diskVars, lastWritten >>

\* the callback of timer t runs:  const deleted = await cleanupCache().  In
\* memory mode cleanupCache returns within the callback's run; on the disk
\* path it suspends at find and the call stays in progress
TimerFires(t) ==
  /\ t \in timers
  /\ IF config.cacheMode = "memory"
     THEN LET r == LRUCleanup(memoryCache, now)
          IN  /\ memoryCache' = r.cache
              /\ lastOp' = Op("cleanup", NoKey, NoData, "void", r.removed,
                              MapKeys(memoryCache) \ MapKeys(r.cache), FALSE)
              /\ UNCHANGED timerSweeps
     ELSE /\ timerSweeps < MaxTimerSweeps
          /\ timerSweeps' = timerSweeps + 1
          /\ UNCHANGED << memoryCache, lastOp >>
  /\ UNCHANGED << cleanupInterval, timers, timersCreated >>
  /\ UNCHANGED << routeVars, serviceVars, config, findImpl, now, touchOrder, overwrote, diskVars,
                  lastWritten >>

\* a cleanupCache call started by a callback returns: the directory is empty,
\* so it returns 0 and the callback logs nothing
TimerSweepReturns ==
  /\ timerSweeps > 0
  /\ timerSweeps' = timerSweeps - 1
  /\ lastOp' = Op("cleanup", NoKey, NoData, "void", 0, {}, FALSE)
  /\ UNCHANGED << cleanupInterval, timers, timersCreated >>
  /\ UNCHANGED << routeVars, serviceVars, config, findImpl, now, memVars, diskVars, lastWritten >>

NextTimer ==
  \/ \E intervalMs \in IntervalChoices : StartCacheCleanup(intervalMs)
  \/ StopCacheCleanup
  \/ \E t \in timers : TimerFires(t)
  \/ TimerSweepReturns

\* the cleanup timer over every cache mode
SpecTimer == Init /\ [][NextTimer]_vars

---------------------------------------------------------------------------
(* C19 *)

\* C19: startCacheCleanup is idempotent: at most one cleanup timer is
\* installed, it is the one cleanupInterval holds, and a startCacheCleanup
\* called while a timer is installed leaves the timer and its interval as
\* they are.
C19_StartIdempotent ==
  [][ /\ Cardinality(timers') <= 1
      /\ timers' = (IF cleanupInterval' = NoTimer THEN {} ELSE { cleanupInterval' })
      /\ ( /\ lastOp'.op = "startCacheCleanup"
           /\ StartCacheCleanup(lastOp'.count)
           /\ cleanupInterval # NoTimer )
          => (cleanupInterval' = cleanupInterval /\ timers' = timers)
    ]_vars

\* startCacheCleanup has returned from a call with another interval than the
\* installed timer's, and that timer is still the only one
C19_Witness ==
  /\ lastOp.op = "startCacheCleanup"
  /\ cleanupInterval # NoTimer
  /\ lastOp.count # cleanupInterval.intervalMs
  /\ timers = { cleanupInterval }

---------------------------------------------------------------------------
(* C20 *)

\* C20: stopCacheCleanup cancels the recurring task: it leaves no timer
\* installed, a callback runs only for the timer cleanupInterval holds (so
\* none runs between a stop and the next start), and a startCacheCleanup
\* called with no timer installed, in a mode other than none, installs a
\* timer that did not exist before.
C20_StopCancels ==
  [][ /\ (lastOp'.op = "stopCacheCleanup" /\ StopCacheCleanup)
           => (cleanupInterval' = NoTimer /\ timers' = {})
      /\ \A t \in timers : TimerFires(t) => t = cleanupInterval
      /\ ( /\ lastOp'.op = "startCacheCleanup"
           /\ StartCacheCleanup(lastOp'.count)
           /\ cleanupInterval = NoTimer
           /\ config.cacheMode # "none" )
          => /\ cleanupInterval' # NoTimer
             /\ cleanupInterval' \notin timers
             /\ timers' = { cleanupInterval' }
             /\ cleanupInterval'.id > timersCreated
             /\ cleanupInterval'.intervalMs = lastOp'.count
    ]_vars

\* a timer has been stopped and a later startCacheCleanup has installed a new one
C20_Witness ==
  /\ lastOp.op = "startCacheCleanup"
  /\ timersCreated >= 2
  /\ cleanupInterval # NoTimer
  /\ cleanupInterval.id = timersCreated
  /\ timers = { cleanupInterval }

---------------------------------------------------------------------------
(* Remote fetches of the pipelines.  Each fetch waits for its remote; while *)
(* it waits, time passes for all fetches in flight together.  A timeout     *)
(* installed with setTimeout fires when its delay has elapsed, so time does *)
(* not pass beyond a due timeout.                                           *)

\* time passes in steps of this many milliseconds while fetches wait
WaitStepMs == 15000
\* a fetch is followed for at most this many steps
MaxWaitSteps == 3

\* config.requestTimeout, at its default
requestTimeout == 30000

\* fetchImage creates an AbortController and a timeout that aborts it;
\* fetchFontCss and loadFontVariant call fetch without a signal
InstallsAbortTimer(kind) == kind \in { "source", "watermark" }

\* what a fetch can end with when the remote answers or the connection fails
AnswerOutcomes(kind) ==
  IF InstallsAbortTimer(kind)
  THEN { "Buffer", "FetchError", "ValidationError", "Error" }
  ELSE { "ok", "Error" }

InFlight(f) == { k \in FetchKinds : f[k].pc = "inflight" }

\* the delays left on the installed timeouts
DelaysLeft(f) == { requestTimeout - f[k].waited : k \in { j \in InFlight(f) : f[j].timer } }

\* how long time can pass at once: one step, or up to the first due timeout
WaitStep(f) ==
  LET due == { d \in DelaysLeft(f) : d < WaitStepMs }
  IN  IF due = {} THEN WaitStepMs
      ELSE CHOOSE d \in due : \A e \in due : d <= e

\* variant of the start of a fetch: every fetch gets the abort timeout
FetchStart_AllTimed(kind) ==
  /\ fetches[kind].pc = "idle"
  /\ kind = "fontFile" => fetches["fontCss"].outcome = "ok"
  /\ fetches' = [fetches EXCEPT ![kind] =
                   [pc |-> "inflight", timer |-> TRUE, waited |-> 0, outcome |-> "none"]]
  /\ UNCHANGED << cacheVars, routeVars, timerVars, processVars, boot, paramsA, paramsB, keyLog, lastInfo, validation >>

\* await fetch(...) begins; the font file is fetched from the URL the CSS gave
FetchStart(kind) ==
  /\ fetches[kind].pc = "idle"
  /\ kind = "fontFile" => fetches["fontCss"].outcome = "ok"
  /\ fetches' = [fetches EXCEPT ![kind] =
                   [pc |-> "inflight", timer |-> InstallsAbortTimer(kind),
                    waited |-> 0, outcome |-> "none"]]
  /\ UNCHANGED << cacheVars, routeVars, timerVars, processVars, boot, paramsA, paramsB, keyLog, lastInfo, validation >>

\* the remotes stay silent while time passes
FetchWaits ==
  /\ InFlight(fetches) # {}
  /\ \A k \in InFlight(fetches) : fetches[k].waited < MaxWaitSteps * WaitStepMs
  /\ WaitStep(fetches) > 0
  /\ fetches' = [k \in FetchKinds |->
                   IF k \in InFlight(fetches)
                   THEN [fetches[k] EXCEPT !.waited = @ + WaitStep(fetches)]
                   ELSE fetches[k]]
  /\ UNCHANGED << cacheVars, routeVars, timerVars, processVars, boot, paramsA, paramsB, keyLog, lastInfo, validation >>

\* the remote answers, or the connection fails: the fetch ends, and the
\* finally of fetchImage clears the timeout
RemoteAnswers(kind, outcome) ==
  /\ fetches[kind].pc = "inflight"
  /\ outcome \in AnswerOutcomes(kind)
  /\ fetches' = [fetches EXCEPT ![kind] =
                   [pc |-> "done", timer |-> FALSE, waited |-> @.waited, outcome |-> outcome]]
  /\ UNCHANGED << cacheVars, routeVars, timerVars, processVars, boot, paramsA, paramsB, keyLog, lastInfo, validation >>

\* the timeout fires: controller.abort() rejects the fetch with an AbortError,
\* which the catch of fetchImage turns into a TimeoutError
FetchTimeout(kind) ==
  /\ fetches[kind].pc = "inflight"
  /\ fetches[kind].timer
  /\ fetches[kind].waited >= requestTimeout
  /\ fetches' = [fetches EXCEPT ![kind] =
                   [pc |-> "done", timer |-> FALSE, waited |-> @.waited,
                    outcome |-> "TimeoutError"]]
  /\ UNCHANGED << cacheVars, routeVars, timerVars, processVars, boot, paramsA, paramsB, keyLog, lastInfo, validation >>

NextFetch ==
  \/ \E kind \in FetchKinds : FetchStart(kind)
  \/ FetchWaits
  \/ \E kind \in FetchKinds : \E outcome \in AnswerOutcomes(kind) : RemoteAnswers(kind, outcome)
  \/ \E kind \in FetchKinds : FetchTimeout(kind)

\* the pipelines' fetches, the cache at rest in memory mode
InitFetch == InitWith({ "memory" }, { 2 })

SpecFetch == InitFetch /\ [][NextFetch]_vars

---------------------------------------------------------------------------
(* C21 *)

\* C21: every remote fetch of the pipelines is bounded by the request
\* timeout: no fetch in flight has waited longer than requestTimeout, at
\* requestTimeout the abort that signals the timeout failure is due, and no
\* fetch has ended after waiting longer.
C21_FetchesBounded ==
  \A kind \in FetchKinds :
    /\ fetches[kind].pc = "inflight" =>
         /\ fetches[kind].waited <= requestTimeout
         /\ fetches[kind].waited = requestTimeout => ENABLED FetchTimeout(kind)
    /\ fetches[kind].pc = "done" => fetches[kind].waited <= requestTimeout

---------------------------------------------------------------------------
(* generateCacheKey(params).  A parameter object is the sequence of its     *)
(* entries in insertion order, its keys distinct.  A value carries its      *)
(* JavaScript type; the field of that type holds it, the others are unused. *)

Undefined == [t |-> "undefined", s |-> "", n |-> 0, b |-> FALSE]
Str(s) == [t |-> "string", s |-> s, n |-> 0, b |-> FALSE]
Num(n) == [t |-> "number", s |-> "", n |-> n, b |-> FALSE]
Bool(b) == [t |-> "boolean", s |-> "", n |-> 0, b |-> b]

Entry(k, v) == [k |-> k, v |-> v]

\* the decimal digits
DigitChars == << "0", "1", "2", "3", "4", "5", "6", "7", "8", "9" >>

\* Number.prototype.toString of a natural number
RECURSIVE NumberToString(_)
NumberToString(n) ==
  IF n < 10 THEN DigitChars[n + 1]
  ELSE NumberToString(n \div 10) \o DigitChars[(n % 10) + 1]

\* `${v}` : the template literal's conversion of a value to a string
TemplateString(v) ==
  CASE v.t = "string" -> v.s
    [] v.t = "number" -> NumberToString(v.n)
    [] v.t = "boolean" -> (IF v.b THEN "true" ELSE "false")
    [] OTHER -> "undefined"

\* the parameter names of the two routes that the model uses, in the order
\* String.prototype.localeCompare puts them
CollationOrder == << "h", "image", "tint", "title", "type", "url", "w", "wm_text" >>

\* a.localeCompare(b): negative, zero or positive
localeCompare(a, b) ==
  LET rank(k) == CHOOSE i \in 1..Len(CollationOrder) : CollationOrder[i] = k
  IN  rank(a) - rank(b)

\* .filter(([, v]) => v !== undefined)
FilterDefined(entries) == SelectSeq(entries, LAMBDA e : e.v # Undefined)

\* Array.prototype.sort with the comparator on the keys: a stable sort
RECURSIVE SortEntries(_)
SortEntries(entries) ==
  IF entries = << >> THEN << >>
  ELSE LET sorted == SortEntries(SubSeq(entries, 1, Len(entries) - 1))
           e == entries[Len(entries)]
           before == SelectSeq(sorted, LAMBDA x : localeCompare(x.k, e.k) <= 0)
           after == SelectSeq(sorted, LAMBDA x : localeCompare(x.k, e.k) > 0)
       IN  before \o << e >> \o after

\* .map(([k, v]) => `${k}=${v}`).join("&")
RECURSIVE JoinEntries(_)
JoinEntries(entries) ==
  IF entries = << >> THEN ""
  ELSE LET e == entries[1]
           first == e.k \o "=" \o TemplateString(e.v)
       IN  IF Len(entries) = 1 THEN first
           ELSE first \o "&" \o JoinEntries(Tail(entries))

\* the string that is hashed
Filtered(params) == JoinEntries(SortEntries(FilterDefined(params)))

\* createHash("sha256").update(s).digest("hex"), taken as collision-free:
\* the digest stands for exactly the string it was made from
Sha256Hex(s) == [sha256 |-> s]

\* variant of generateCacheKey without the .sort
generateCacheKey_Unsorted(params) == Sha256Hex(JoinEntries(FilterDefined(params)))

\* variant of generateCacheKey with a salt of the running process
generateCacheKey_Salted(params) ==
  Sha256Hex(NumberToString(boot) \o ":" \o Filtered(params))

generateCacheKey(params) == Sha256Hex(Filtered(params))

\* the parameter names and values the objects are built from
ParamKeys == { "url", "w" }
ParamValues == { Undefined, Num(1), Str("1"), Bool(TRUE), Str("1&w=1") }

\* the objects over all of the names or some, in every insertion order
ParamObjects ==
  UNION { { o \in [1..n -> { Entry(k, v) : k \in ParamKeys, v \in ParamValues }] :
              \A i, j \in 1..n : i # j => o[i].k # o[j].k } :
          n \in 0..Cardinality(ParamKeys) }

\* the process is restarted at most this many times
MaxBoots == 1

\* generateCacheKey(paramsA) or generateCacheKey(paramsB) is called
GenerateCacheKey(obj) ==
  /\ keyLog' = keyLog \cup
       { [obj |-> obj, boot |-> boot,
          key |-> generateCacheKey(IF obj = "A" THEN paramsA ELSE paramsB)] }
  /\ UNCHANGED << cacheVars, routeVars, timerVars, processVars, fetches, boot, paramsA, paramsB, lastInfo, validation >>

\* the process is restarted
Restart ==
  /\ boot < MaxBoots
  /\ boot' = boot + 1
  /\ UNCHANGED << cacheVars, routeVars, timerVars, processVars, fetches, paramsA, paramsB, keyLog, lastInfo, validation >>

NextKey ==
  \/ \E obj \in { "A", "B" } : GenerateCacheKey(obj)
  \/ Restart

\* two parameter objects, the cache at rest in memory mode
InitKey ==
  /\ InitCache({ "memory" }, { 2 })
  /\ fetches = [k \in FetchKinds |-> FetchIdle]
  /\ boot = 0
  /\ paramsA \in ParamObjects
  /\ paramsB \in ParamObjects
  /\ keyLog = {}
  /\ lastInfo = NoInfo
  /\ validation = [r \in Reqs |-> ValidationIdle]
  /\ InitProcess

SpecKey == InitKey /\ [][NextKey]_vars

\* the defined fields of an object with their values
DefinedFields(params) ==
  { << params[i].k, params[i].v >> : i \in { j \in 1..Len(params) : params[j].v # Undefined } }

\* the keys returned so far for an object
KeysOf(obj) == { l.key : l \in { m \in keyLog : m.obj = obj } }

---------------------------------------------------------------------------
(* C22 *)

\* C22: generateCacheKey is invariant under canonicalisation: two parameter
\* objects with the same defined fields and values get the same key, whatever
\* the insertion order of their fields and whatever fields of value
\* undefined they carry.
C22_CanonicalKey ==
  DefinedFields(paramsA) = DefinedFields(paramsB)
    => Cardinality(KeysOf("A") \cup KeysOf("B")) <= 1

\* both keys have been computed for two objects that hold the same two
\* defined fields in different insertion orders
C22_Witness ==
  /\ DefinedFields(paramsA) = DefinedFields(paramsB)
  /\ Cardinality(DefinedFields(paramsA)) = 2
  /\ paramsA[1].k # paramsB[1].k
  /\ KeysOf("A") # {} /\ KeysOf("B") # {}

---------------------------------------------------------------------------
(* C23 *)

\* C23: generateCacheKey is sensitive: two parameter objects that differ in
\* a defined value or in the set of defined fields never get the same key.
C23_SensitiveKey ==
  DefinedFields(paramsA) # DefinedFields(paramsB)
    => KeysOf("A") \cap KeysOf("B") = {}

---------------------------------------------------------------------------
(* C24 *)

---------------------------------------------------------------------------
(* getCacheHeaders(format) and getCacheStats(), called while the cache is  *)
(* being written                                                           *)

\* the formats of ImageFormat, the keys of MIME_TYPES
ImageFormats == { "webp", "avif", "png", "jpg", "jpeg", "gif" }

\* members that every object literal inherits from Object.prototype
ObjectPrototypeMembers == { "constructor", "toString" }

\* strings that are no format
OtherFormats == { "bmp", "" } \cup ObjectPrototypeMembers

\* the own properties of MIME_TYPES
MIME_TYPES ==
  [f \in ImageFormats |->
     IF f \in { "jpg", "jpeg" } THEN "image/jpeg" ELSE "image/" \o f]

\* MIME_TYPES[format]: the own property, else the member inherited from
\* Object.prototype (a function), else undefined
MimeLookup(format) ==
  IF format \in DOMAIN MIME_TYPES THEN Str(MIME_TYPES[format])
  ELSE IF format \in ObjectPrototypeMembers
       THEN [t |-> "function", s |-> format, n |-> 0, b |-> FALSE]
       ELSE Undefined

\* a || b
OrElse(a, b) ==
  IF a.t = "undefined" \/ (a.t = "string" /\ a.s = "") \/ (a.t = "number" /\ a.n = 0)
     \/ (a.t = "boolean" /\ ~a.b)
  THEN b ELSE a

\* getCacheHeaders(format)
getCacheHeaders(format) ==
  [ContentType |-> OrElse(MimeLookup(format), Str("image/jpeg")),
   CacheControl |-> "public, max-age=" \o NumberToString(config.browserCacheTTL)
                      \o ", immutable",
   Vary |-> "Accept"]

\* variant of getCacheStats: items is the configured limit
getCacheStats_ItemLimit ==
  CASE config.cacheMode = "memory" ->
         [mode |-> "memory", items |-> config.maxMemoryCacheItems]
    [] config.cacheMode = "disk" -> [mode |-> "disk", directory |-> config.cacheDir]
    [] config.cacheMode = "none" -> [mode |-> "none"]
    [] OTHER -> Undefined

\* getCacheStats(): memoryCache.size() is the Map's size; a mode without a
\* case falls out of the switch and the function returns undefined
getCacheStats ==
  CASE config.cacheMode = "memory" -> [mode |-> "memory", items |-> Len(memoryCache)]
    [] config.cacheMode = "disk" -> [mode |-> "disk", directory |-> config.cacheDir]
    [] config.cacheMode = "none" -> [mode |-> "none"]
    [] OTHER -> Undefined

\* a caller gets the headers of a format
GetCacheHeaders(format) ==
  /\ lastInfo' = [call |-> "getCacheHeaders", arg |-> format,
                  result |-> getCacheHeaders(format)]
  /\ UNCHANGED << cacheVars, routeVars, timerVars, processVars, fetches, boot, paramsA, paramsB, keyLog, validation >>

\* GET /health asks for the statistics
GetCacheStats ==
  /\ lastInfo' = [call |-> "getCacheStats", arg |-> "", result |-> getCacheStats]
  /\ UNCHANGED << cacheVars, routeVars, timerVars, processVars, fetches, boot, paramsA, paramsB, keyLog, validation >>

\* the browser cache TTLs configured: none, an hour, the default
BrowserCacheTTLs == { 0, 3600, DefaultBrowserCacheTTL }

NextInfo ==
  \/ \E format \in ImageFormats \cup OtherFormats : GetCacheHeaders(format)
  \/ GetCacheStats
  \/ \E key \in Keys, data \in Data : SetMemoryCache(key, data)
  \/ ClearMemory
  \/ \E key \in DiskKeys, data \in Data : SetDiskCache(key, data)
  \/ \E key \in Keys, data \in Data : SetCacheNoBackend(key, data)

\* every mode and browser cache TTL
InitInfo ==
  /\ InitCacheWith(CacheModes, { 2 }, BrowserCacheTTLs, { << >> })
  /\ InitServices

SpecInfo == InitInfo /\ [][NextInfo]_vars

---------------------------------------------------------------------------
(* C25 *)

---------------------------------------------------------------------------
(* C26 *)

\* C26: getCacheStats changes nothing of the cache and returns, in memory
\* mode, the mode with the number of entries the table holds; in disk mode,
\* the mode with the configured directory; in none mode, the mode alone.
C26_StatsShape ==
  [][ GetCacheStats =>
        /\ UNCHANGED cacheVars
        /\ config.cacheMode = "memory" =>
             lastInfo'.result = [mode |-> "memory", items |-> Len(memoryCache')]
        /\ config.cacheMode = "disk" =>
             lastInfo'.result = [mode |-> "disk", directory |-> config.cacheDir]
        /\ config.cacheMode = "none" => lastInfo'.result = [mode |-> "none"]
    ]_vars

\* the statistics have been returned for a memory table of one entry, below
\* the configured limit
C26_Witness ==
  /\ lastInfo.call = "getCacheStats"
  /\ config.cacheMode = "memory"
  /\ Len(memoryCache) = 1
  /\ lastInfo.result.items = 1

---------------------------------------------------------------------------
(* validateUrl(urlString).  A hostname is the sequence of its labels, the   *)
(* parts between the dots; an address is its version with its octets or     *)
(* 16-bit groups.  new URL() is given by its result on the strings of the   *)
(* model; DNS is the environment and may answer with the records of a name  *)
(* or fail.                                                                 *)

IP4(a, b, c, d) == [v |-> 4, parts |-> << a, b, c, d >>]
IP6(h1, h8) == [v |-> 6, parts |-> << h1, 0, 0, 0, 0, 0, 0, h8 >>]
NoAddress == [v |-> 0, parts |-> << >>]

\* PRIVATE_IP_RANGES.some(range => range.test(ip)): each pattern read on the
\* dotted-decimal or the colon-hexadecimal text of the address
isPrivateIP(ip) ==
  LET p == ip.parts
  IN  IF ip.v = 4
      THEN \/ p[1] = 127
           \/ p[1] = 10
           \/ (p[1] = 172 /\ p[2] \in 16..31)
           \/ (p[1] = 192 /\ p[2] = 168)
           \/ (p[1] = 169 /\ p[2] = 254)
           \/ p[1] = 0
           \/ (p[1] = 100 /\ p[2] \in (64..69) \cup (70..99) \cup (100..129))
      ELSE \/ p = << 0, 0, 0, 0, 0, 0, 0, 1 >>
           \/ p[1] = 65152
           \/ p[1] = 64512
           \/ p[1] = 253 \/ p[1] \div 16 = 253 \/ p[1] \div 256 = 253

\* config.blockedDomains, fixed by config.ts
blockedDomains == { << "localhost" >>, << "127", "0", "0", "1" >>, << "0", "0", "0", "0" >>,
                    << "::1" >> }

\* hostname === d || hostname.endsWith(`.${d}`)
MatchesDomain(hostname, d) ==
  \/ hostname = d
  \/ /\ Len(hostname) > Len(d)
     /\ SubSeq(hostname, Len(hostname) - Len(d) + 1, Len(hostname)) = d

\* an unparsable string
NotAUrl == [valid |-> FALSE, protocol |-> "", hostname |-> << >>, host |-> << >>,
            literal |-> NoAddress]

Url(protocol, hostname, host, literal) ==
  [valid |-> TRUE, protocol |-> protocol, hostname |-> hostname, host |-> host,
   literal |-> literal]

\* the strings handed to validateUrl
UrlStrings ==
  { "not-a-url", "file:///etc/passwd", "ftp://example.com/file.jpg",
    "http://LOCALHOST/image.png", "http://api.localhost/image.png",
    "http://127.0.0.1/image.png", "http://0.0.0.0/image.png", "http://[::1]/image.png",
    "https://example.com/image.png", "http://10.0.0.5/image.png",
    "http://internal.example.com/image.png", "http://v6.example.com/image.png" }

\* new URL(urlString): protocol and hostname as the URL object reports them
\* (the host in lower case, an IPv6 address inside its brackets); host is the
\* domain or address the string names, literal the address if it names one
ParseUrl(urlString) ==
  CASE urlString = "file:///etc/passwd" -> Url("file:", << >>, << >>, NoAddress)
    [] urlString = "ftp://example.com/file.jpg" ->
         Url("ftp:", << "example", "com" >>, << "example", "com" >>, NoAddress)
    [] urlString = "http://LOCALHOST/image.png" ->
         Url("http:", << "localhost" >>, << "localhost" >>, NoAddress)
    [] urlString = "http://api.localhost/image.png" ->
         Url("http:", << "api", "localhost" >>, << "api", "localhost" >>, NoAddress)
    [] urlString = "http://127.0.0.1/image.png" ->
         Url("http:", << "127", "0", "0", "1" >>, << "127", "0", "0", "1" >>,
             IP4(127, 0, 0, 1))
    [] urlString = "http://0.0.0.0/image.png" ->
         Url("http:", << "0", "0", "0", "0" >>, << "0", "0", "0", "0" >>, IP4(0, 0, 0, 0))
    [] urlString = "http://[::1]/image.png" ->
         Url("http:", << "[::1]" >>, << "::1" >>, IP6(0, 1))
    [] urlString = "https://example.com/image.png" ->
         Url("https:", << "example", "com" >>, << "example", "com" >>, NoAddress)
    [] urlString = "http://10.0.0.5/image.png" ->
         Url("http:", << "10", "0", "0", "5" >>, << "10", "0", "0", "5" >>, IP4(10, 0, 0, 5))
    [] urlString = "http://internal.example.com/image.png" ->
         Url("http:", << "internal", "example", "com" >>, << "internal", "example", "com" >>,
             NoAddress)
    [] urlString = "http://v6.example.com/image.png" ->
         Url("http:", << "v6", "example", "com" >>, << "v6", "example", "com" >>, NoAddress)
    [] OTHER -> NotAUrl

\* the A and AAAA records of the names in the zone; a dotted-decimal name is
\* answered with itself or not at all, depending on the resolver
RecordsA(hostname) ==
  CASE hostname = << "example", "com" >> -> { IP4(93, 184, 216, 34) }
    [] hostname = << "internal", "example", "com" >> -> { IP4(10, 0, 0, 5) }
    [] hostname = << "10", "0", "0", "5" >> -> { IP4(10, 0, 0, 5) }
    [] OTHER -> {}

RecordsAAAA(hostname) ==
  CASE hostname = << "example", "com" >> -> { IP6(9734, 1) }
    [] hostname = << "v6", "example", "com" >> -> { IP6(64513, 1) }
    [] OTHER -> {}

\* dns.resolve4(hostname).catch(() => []): the records, or [] when the
\* query fails or there are none
Resolve4Answers(hostname) == { RecordsA(hostname), {} }

\* dns.resolve6(hostname).catch(() => [])
Resolve6Answers(hostname) == { RecordsAAAA(hostname), {} }

\* the allowlists configured: none, one domain, a blocked domain
AllowLists == { << >>, << << "example", "com" >> >>, << << "localhost" >> >> }

Done(v, result) == [v EXCEPT !.pc = "done", !.result = result]

\* validateUrl(urlString) up to its first await: the parse, the protocol
\* test, the blocklist, the allowlist, and the start of dns.resolve4
ValidateUrl(r, urlString) ==
  /\ validation[r].pc \in { "idle", "done" }
  /\ LET url == ParseUrl(urlString)
         v == [pc |-> "resolve4", url |-> urlString, hostname |-> url.hostname,
               lookups |-> 0, resolved |-> 0, result |-> "none"]
     IN  validation' = [validation EXCEPT ![r] =
           IF ~url.valid THEN Done(v, "ValidationError")
           ELSE IF url.protocol \notin { "http:", "https:" } THEN Done(v, "ForbiddenError")
           ELSE IF \E d \in blockedDomains : MatchesDomain(url.hostname, d)
                THEN Done(v, "ForbiddenError")
           ELSE IF /\ Len(config.allowedDomains) > 0
                   /\ ~\E i \in 1..Len(config.allowedDomains) :
                         MatchesDomain(url.hostname, config.allowedDomains[i])
                THEN Done(v, "ForbiddenError")
           ELSE [v EXCEPT !.lookups = 1]]
  /\ UNCHANGED << cacheVars, routeVars, timerVars, processVars, fetches, boot, paramsA, paramsB, keyLog,
                  lastInfo >>

\* dns.resolve4 has answered: a private address is refused, otherwise
\* dns.resolve6 is started
Resolve4Returns(r, addresses) ==
  /\ validation[r].pc = "resolve4"
  /\ addresses \in Resolve4Answers(validation[r].hostname)
  /\ validation' = [validation EXCEPT ![r] =
       IF \E ip \in addresses : isPrivateIP(ip)
       THEN Done(@, "ForbiddenError")
       ELSE [@ EXCEPT !.pc = "resolve6", !.lookups = @ + 1,
                      !.resolved = Cardinality(addresses)]]
  /\ UNCHANGED << cacheVars, routeVars, timerVars, processVars, fetches, boot, paramsA, paramsB, keyLog,
                  lastInfo >>

\* dns.resolve6 has answered: a private address is refused; otherwise the
\* URL is returned, with a warning if nothing was resolved
Resolve6Returns(r, addresses) ==
  /\ validation[r].pc = "resolve6"
  /\ addresses \in Resolve6Answers(validation[r].hostname)
  /\ validation' = [validation EXCEPT ![r] =
       IF \E ip \in addresses : isPrivateIP(ip)
       THEN Done(@, "ForbiddenError")
       ELSE Done([@ EXCEPT !.resolved = @ + Cardinality(addresses)], "accepted")]
  /\ UNCHANGED << cacheVars, routeVars, timerVars, processVars, fetches, boot, paramsA, paramsB, keyLog,
                  lastInfo >>

NextValidate ==
  \/ \E r \in Reqs, urlString \in UrlStrings : ValidateUrl(r, urlString)
  \/ \E r \in Reqs : \E addresses \in Resolve4Answers(validation[r].hostname) :
       Resolve4Returns(r, addresses)
  \/ \E r \in Reqs : \E addresses \in Resolve6Answers(validation[r].hostname) :
       Resolve6Returns(r, addresses)

\* every allowlist of the model, the cache at rest in memory mode
InitValidate ==
  /\ InitCacheWith({ "memory" }, { 2 }, { DefaultBrowserCacheTTL }, AllowLists)
  /\ InitServices

SpecValidate == InitValidate /\ [][NextValidate]_vars

\* an address that is loopback, private or link-local: 127/8, 10/8,
\* 172.16/12, 192.168/16, 169.254/16, ::1, fe80::/10, fc00::/7
InternalAddress(ip) ==
  LET p == ip.parts
  IN  IF ip.v = 4
      THEN \/ p[1] \in { 127, 10 }
           \/ (p[1] = 172 /\ p[2] \in 16..31)
           \/ (p[1] = 192 /\ p[2] = 168)
           \/ (p[1] = 169 /\ p[2] = 254)
      ELSE \/ p = << 0, 0, 0, 0, 0, 0, 0, 1 >>
           \/ p[1] \div 64 = 65152 \div 64
           \/ p[1] \div 512 = 64512 \div 512

---------------------------------------------------------------------------
(* C27 *)

\* C27: validateUrl rejects before any DNS lookup: a string that is no URL
\* with ValidationError, a URL of another protocol than http and https with
\* ForbiddenError, and a URL whose host is a blocked domain or a subdomain
\* of one with ForbiddenError, whatever the allowlist holds.
C27_RejectsBeforeDns ==
  \A r \in Reqs :
  LET url == ParseUrl(validation[r].url)
      early(result) == /\ validation[r].pc = "done"
                       /\ validation[r].result = result
                       /\ validation[r].lookups = 0
  IN  validation[r].pc # "idle" =>
        /\ ~url.valid => early("ValidationError")
        /\ (url.valid /\ url.protocol \notin { "http:", "https:" }) => early("ForbiddenError")
        /\ (url.valid /\ \E d \in blockedDomains : MatchesDomain(url.host, d))
             => early("ForbiddenError")

---------------------------------------------------------------------------
(* C28 *)

\* C28: validateUrl never accepts a URL whose host is a loopback, private or
\* link-local address, or whose hostname has such an address among its DNS
\* records.
C28_NoInternalAddress ==
  \A r \in Reqs :
  validation[r].result = "accepted" =>
    LET url == ParseUrl(validation[r].url)
    IN  /\ url.literal # NoAddress => ~InternalAddress(url.literal)
        /\ \A ip \in RecordsA(url.hostname) \cup RecordsAAAA(url.hostname) :
             ~InternalAddress(ip)

---------------------------------------------------------------------------
(* The parameter objects the two routes hand to generateCacheKey.  Of each  *)
(* schema the model keeps the free strings, a pattern string and the two    *)
(* numbers both routes share; a parameter the query lacks is undefined.     *)

\* queries that ogQuerySchema accepts
OgQueries ==
  [title : { Undefined, Str("x"), Str("x&url=x") },
   image : { Undefined, Str("x&url=x&w=100") },
   w : { Undefined, Num(100) },
   h : { Undefined, Num(100) }]

\* queries that imageQuerySchema accepts: url is required
ImageQueries ==
  [url : { Str("x"), Str("x&type=og"), Str("x&w=100") },
   w : { Undefined, Num(100) },
   h : { Undefined, Num(100) },
   tint : { Undefined, Str("fff") },
   wm_text : { Undefined, Str("x&type=og") }]

\* variant of the /og object: no discriminator, the title under the name url
OgKeyParams_AsTransform(query) ==
  << Entry("url", query.title), Entry("image", query.image), Entry("w", query.w),
     Entry("h", query.h) >>

\* /og:  { type: "og", ...params }
OgKeyParams(query) ==
  << Entry("type", Str("og")), Entry("title", query.title), Entry("image", query.image),
     Entry("w", query.w), Entry("h", query.h) >>

\* /image:  params
ImageKeyParams(query) ==
  << Entry("url", query.url), Entry("w", query.w), Entry("h", query.h),
     Entry("tint", query.tint), Entry("wm_text", query.wm_text) >>

\* an /og request and an /image request, the cache at rest in memory mode
InitRouteKeys ==
  /\ InitCache({ "memory" }, { 2 })
  /\ fetches = [k \in FetchKinds |-> FetchIdle]
  /\ boot = 0
  /\ paramsA \in { OgKeyParams(q) : q \in OgQueries }
  /\ paramsB \in { ImageKeyParams(q) : q \in ImageQueries }
  /\ keyLog = {}
  /\ lastInfo = NoInfo
  /\ validation = [r \in Reqs |-> ValidationIdle]
  /\ InitProcess

SpecRouteKeys == InitRouteKeys /\ [][NextKey]_vars

---------------------------------------------------------------------------
(* C29 *)

\* C29: the key of an /og request and the key of an /image request are made
\* from different strings, whatever the two queries are: no key is returned
\* for both.
C29_RouteKeysDisjoint ==
  /\ KeysOf("A") \cap KeysOf("B") = {}
  /\ Filtered(paramsA) # Filtered(paramsB)

\* both keys have been computed for an /og query whose strings spell out
\* transform parameters and an /image query whose strings spell out type=og
C29_Witness ==
  /\ KeysOf("A") # {} /\ KeysOf("B") # {}
  /\ paramsA[2].v = Str("x&url=x") /\ paramsA[5].v = Num(100)
  /\ paramsB[1].v = Str("x&type=og") /\ paramsB[3].v = Num(100)
  /\ paramsB[5].v = Str("x&type=og")

---------------------------------------------------------------------------
(* C30 *)

\* C30: a deletion removes only a stale file: neither the background rm that
\* a lookup started nor an rm of the sweep removes a file that a setCache has
\* rewritten since the deletion was decided, so the file a deletion removes
\* is always at least TTL old.
C30_DeletionsRemoveStaleOnly ==
  [][ \A path \in AllPaths :
        ((BackgroundRm(path) \/ CleanupRm(path)) /\ FileExists(files, path))
          => FileAge(path) >= ttlMs
    ]_vars

---------------------------------------------------------------------------
(* C31 *)

\* C31: the detached cache write runs to completion.  A handler whose
\* pipeline succeeded calls setCache and answers without waiting for it; and
\* once the write has completed, the bytes stay in the cache, where a lookup
\* finds them, for as long as no time passes and no other write replaces
\* them.
C31_DetachedWriteCompletes ==
  [][ \A r \in Reqs : \A key \in {requests[r].key} :
        LET fresh == IF config.cacheMode = "memory"
                     THEN now - MapGet(memoryCache, key).createdAt <= ttlMs
                     ELSE DiskFresh(FileAge(getCachePath(key)))
        IN  /\ (\E data \in Data : HandlerPipelineOk(r, data))
                 => (requests'[r].pc = "done" /\ requests'[r].write # "none")
            /\ ( /\ requests[r].write = "stored" /\ requests[r].last
                 /\ CacheHolds(key) = requests[r].buffer
                 /\ fresh
                 /\ now' = now
                 /\ (requests'[r].last \/ requests'[r] = ReqIdle) )
                 => CacheHolds(key)' = requests[r].buffer
    ]_vars

---------------------------------------------------------------------------
(* C32 *)

\* C32: the cleanup sweep tolerates failures.  A sweep that has its list of
\* old files goes on, one listed file per step whether its rm succeeded or
\* threw, and ends only when the list is empty, returning the number of
\* files it removed; and a sweep whose find throws returns 0 and touches no
\* file.
C32_SweepToleratesFailures ==
  [][ /\ (sweep.pc = "rm" /\ sweep' # sweep)
           => \/ /\ sweep'.pc = "rm"
                 /\ \E path \in sweep.oldFiles :
                      sweep'.oldFiles = sweep.oldFiles \ {path}
              \/ /\ sweep.oldFiles = {}
                 /\ sweep' = SweepIdle
                 /\ lastOp' = Op("cleanup", NoKey, NoData, "void", sweep.deleted, {}, FALSE)
      /\ CleanupFindFails
           => /\ lastOp' = Op("cleanup", NoKey, NoData, "void", 0, {}, FALSE)
              /\ files' = files /\ sweep' = SweepIdle
    ]_vars

\* a sweep at its end in which one rm threw and another listed file was removed
C32_Witness ==
  /\ sweep.pc = "rm" /\ sweep.oldFiles = {}
  /\ sweep.failed >= 1 /\ sweep.deleted >= 1

---------------------------------------------------------------------------
(* C33 *)

\* callers store, look up and ask for the statistics, in every mode that
\* CacheModeSchema accepts, with no time passing in between
NextModes ==
  \/ \E key \in Keys, data \in Data : SetMemoryCache(key, data)
  \/ \E key \in DiskKeys, data \in Data : SetDiskCache(key, data)
  \/ \E key \in Keys, data \in Data : SetCacheNoBackend(key, data)
  \/ \E key \in Keys : GetMemoryCached(key)
  \/ \E key \in DiskKeys : GetDiskExists(key)
  \/ GetDiskStat
  \/ GetDiskRead
  \/ \E key \in Keys : GetCachedNoBackend(key)
  \/ GetCacheStats

SpecModes == Init /\ [][NextModes]_vars

\* C33: every accepted cache mode other than none has a backend.  A
\* getCached(key) that follows a completed setCache(key, bytes) before the
\* TTL returns those bytes, and getCacheStats returns a record tagged with
\* the mode.
C33_EveryModeServed ==
  [][ config.cacheMode # "none" =>
        /\ ( /\ lastOp.op = "set" /\ lastOp'.op = "get"
             /\ lastOp'.key = lastOp.key )
             => lastOp'.ret = lastOp.data
        /\ lastInfo'.call = "getCacheStats"
             => /\ "mode" \in DOMAIN lastInfo'.result
                /\ lastInfo'.result.mode = config.cacheMode
    ]_vars

---------------------------------------------------------------------------
(* GET /image on a miss: fetchImage, processImage's catch, the route's onError *)

\* utils/errors.ts: each class with the statusCode and code its constructor sets
ValidationError == [name |-> "ValidationError", statusCode |-> 400, code |-> "VALIDATION_ERROR"]
ForbiddenError == [name |-> "ForbiddenError", statusCode |-> 403, code |-> "FORBIDDEN"]
FetchError == [name |-> "FetchError", statusCode |-> 502, code |-> "FETCH_ERROR"]
TimeoutError == [name |-> "TimeoutError", statusCode |-> 504, code |-> "TIMEOUT"]
ImageProcessingError ==
  [name |-> "ImageProcessingError", statusCode |-> 422, code |-> "IMAGE_PROCESSING_ERROR"]

\* errors of the runtime: the rejection of an aborted fetch, any other Error
AbortError == [name |-> "AbortError", statusCode |-> 0, code |-> ""]
PlainError == [name |-> "Error", statusCode |-> 0, code |-> ""]

\* error instanceof PixelServeError
IsPixelServeError(error) ==
  error.name \in { "ValidationError", "ForbiddenError", "NotFoundError", "FetchError",
                   "TimeoutError", "ImageProcessingError" }

\* the catch of fetchImage: an AbortError becomes a TimeoutError, anything
\* else is thrown on
fetchImageCatch(error) == IF error.name = "AbortError" THEN TimeoutError ELSE error

\* variant of processImage's catch that throws every error on as it is
processImageCatch_Rethrows(error) == error

\* the catch of processImage: a ValidationError or ImageProcessingError is
\* thrown on, every other error is replaced by a new ImageProcessingError
processImageCatch(error) ==
  IF error.name \in { "ValidationError", "ImageProcessingError" }
  THEN error
  ELSE ImageProcessingError

\* imageRoutes.onError: status and body of the error response
onError(error) ==
  IF IsPixelServeError(error)
  THEN [status |-> error.statusCode, error |-> error.code]
  ELSE [status |-> 500, error |-> "INTERNAL_ERROR"]

\* what the steps of /image's miss path leave alone
exceptPipelines == << cacheVars, routeVars, timerVars, fetches, boot, paramsA, paramsB, keyLog,
                      lastInfo, validation, fontVars, clusterVars >>

\* processImage(params) starts: fetchImage awaits validateUrl
ProcessImage(r) ==
  /\ pipelines[r].pc \in { "idle", "done" }
  /\ pipelines' = [pipelines EXCEPT ![r] = [PipelineIdle EXCEPT !.pc = "validateUrl"]]
  /\ UNCHANGED exceptPipelines

\* what validateUrl throws: a ValidationError (not a URL, wrong protocol) or a
\* ForbiddenError (blocked or not allowed host, private address)
ValidateUrlErrors == { ValidationError, ForbiddenError }

\* validateUrl throws, outside the try of fetchImage
ValidateUrlThrows(r, error) ==
  /\ pipelines[r].pc = "validateUrl"
  /\ error \in ValidateUrlErrors
  /\ pipelines' = [pipelines EXCEPT ![r].pc = "catch", ![r].thrown = error]
  /\ UNCHANGED exceptPipelines

\* validateUrl returns the URL: await fetch(...)
ValidateUrlReturns(r) ==
  /\ pipelines[r].pc = "validateUrl"
  /\ pipelines' = [pipelines EXCEPT ![r].pc = "fetch"]
  /\ UNCHANGED exceptPipelines

\* fetch rejects: aborted by the timeout, or a network failure
FetchRejects(r, error) ==
  /\ pipelines[r].pc = "fetch"
  /\ error \in { AbortError, PlainError }
  /\ pipelines' = [pipelines EXCEPT ![r].pc = "catch", ![r].thrown = fetchImageCatch(error)]
  /\ UNCHANGED exceptPipelines

\* the answers of the upstream server
Answers == { "notOk", "notImage", "tooLarge", "image" }

\* fetch resolves: !response.ok throws a FetchError, a content type that is
\* not an image or a body over the limit a ValidationError
FetchResponds(r, answer) ==
  /\ pipelines[r].pc = "fetch"
  /\ answer \in Answers
  /\ pipelines' =
       IF answer = "image"
       THEN [pipelines EXCEPT ![r].pc = "sharp"]
       ELSE [pipelines EXCEPT ![r].pc = "catch",
                              ![r].thrown = fetchImageCatch(IF answer = "notOk"
                                                            THEN FetchError
                                                            ELSE ValidationError)]
  /\ UNCHANGED exceptPipelines

\* sharp throws on the fetched bytes
SharpThrows(r) ==
  /\ pipelines[r].pc = "sharp"
  /\ pipelines' = [pipelines EXCEPT ![r].pc = "catch", ![r].thrown = PlainError]
  /\ UNCHANGED exceptPipelines

\* processImage returns the buffer: the handler answers 200
SharpReturns(r) ==
  /\ pipelines[r].pc = "sharp"
  /\ pipelines' = [pipelines EXCEPT ![r].pc = "done",
                                    ![r].response = [status |-> StatusOk, error |-> ""]]
  /\ UNCHANGED exceptPipelines

\* the catch of processImage
ProcessImageCatch(r) ==
  /\ pipelines[r].pc = "catch"
  /\ pipelines' = [pipelines EXCEPT ![r].pc = "onError",
                                    ![r].rethrown = processImageCatch(pipelines[r].thrown)]
  /\ UNCHANGED exceptPipelines

\* the handler rejects with what processImage threw: onError answers
OnError(r) ==
  /\ pipelines[r].pc = "onError"
  /\ pipelines' = [pipelines EXCEPT ![r].pc = "done",
                                    ![r].response = onError(pipelines[r].rethrown)]
  /\ UNCHANGED exceptPipelines

NextImage ==
  \/ \E r \in Reqs : ProcessImage(r)
  \/ \E r \in Reqs, error \in ValidateUrlErrors : ValidateUrlThrows(r, error)
  \/ \E r \in Reqs : ValidateUrlReturns(r)
  \/ \E r \in Reqs, error \in { AbortError, PlainError } : FetchRejects(r, error)
  \/ \E r \in Reqs, answer \in Answers : FetchResponds(r, answer)
  \/ \E r \in Reqs : SharpThrows(r)
  \/ \E r \in Reqs : SharpReturns(r)
  \/ \E r \in Reqs : ProcessImageCatch(r)
  \/ \E r \in Reqs : OnError(r)

\* two requests of /image that miss, the cache at rest in memory mode
SpecImage == InitWith({ "memory" }, { 2 }) /\ [][NextImage]_vars

---------------------------------------------------------------------------
(* C34 *)

\* C34: typed pipeline failures keep their identity at /image.  A request
\* that ended on a ForbiddenError, a FetchError or a TimeoutError thrown in
\* fetchImage is answered with that error's status and code: 403 FORBIDDEN,
\* 502 FETCH_ERROR, 504 TIMEOUT.
C34_TypedFailuresKeepIdentity ==
  \A r \in Reqs :
    pipelines[r].pc = "done" =>
      /\ pipelines[r].thrown = ForbiddenError
           => pipelines[r].response = [status |-> 403, error |-> "FORBIDDEN"]
      /\ pipelines[r].thrown = FetchError
           => pipelines[r].response = [status |-> 502, error |-> "FETCH_ERROR"]
      /\ pipelines[r].thrown = TimeoutError
           => pipelines[r].response = [status |-> 504, error |-> "TIMEOUT"]

---------------------------------------------------------------------------
(* C35 *)

\* C35: reading does not extend an entry's life.  A memory get that hits
\* leaves the bytes and createdAt of every entry as they were; the createdAt
\* of a key that stays in the table changes only in a set of that key, to the
\* time of the set; and a get later than TTL after createdAt returns null.
C35_ReadKeepsAge ==
  [][ \A key \in Keys :
        /\ (GetMemoryCached(key) /\ lastOp'.ret # Absent)
             => /\ MapKeys(memoryCache') = MapKeys(memoryCache)
                /\ \A k \in MapKeys(memoryCache) :
                     MapGet(memoryCache', k) = MapGet(memoryCache, k)
        /\ ( /\ MapHas(memoryCache, key) /\ MapHas(memoryCache', key)
             /\ MapGet(memoryCache', key).createdAt # MapGet(memoryCache, key).createdAt )
             => /\ MemorySetStep /\ lastOp'.key = key
                /\ MapGet(memoryCache', key).createdAt = now
        /\ ( /\ GetMemoryCached(key) /\ MapHas(memoryCache, key)
             /\ now - MapGet(memoryCache, key).createdAt > ttlMs )
             => lastOp'.ret = Absent
    ]_vars

\* an entry set earlier has just been read, and is as old as before
C35_Witness ==
  /\ lastOp.op = "get" /\ lastOp.ret # Absent
  /\ MapHas(memoryCache, lastOp.key)
  /\ now - MapGet(memoryCache, lastOp.key).createdAt > 0

---------------------------------------------------------------------------
(* C36 *)

\* C36: overwriting does not evict.  A memory set for a key that is in the
\* table replaces that key's bytes and leaves the set of keys as it was, also
\* when the table is at its maximum item count.
C36_OverwriteKeepsKeys ==
  [][ \A key \in Keys, data \in Data :
        (SetMemoryCache(key, data) /\ MapHas(memoryCache, key))
          => /\ MapHas(memoryCache', key)
             /\ MapGet(memoryCache', key).data = data
             /\ MapKeys(memoryCache') = MapKeys(memoryCache)
    ]_vars

---------------------------------------------------------------------------
(* C37 *)

\* C37: cleanup sweeps do not overlap.  At any time at most one cleanupCache
\* call started by a callback of the cleanup timer is in progress.
C37_SweepsDoNotOverlap == timerSweeps <= 1

---------------------------------------------------------------------------
(* services/fonts.ts: loadFontVariant *)

\* the most load promises created in one behaviour
MaxLoads == 3

FontNames == { "Inter" }
FontWeights == { 400, 700 }

\* getCacheKey(fontName, weight): `${fontName}-${weight}`
getCacheKey(fontName, weight) == fontName \o "-" \o NumberToString(weight)

\* the bytes of a font variant
FontData(key) == [ttf |-> key]

Settled(load) == load.pc \in { "fulfilled", "rejected" }

\* the load promises of a cache key that have not settled
InProgress(key) == { l \in DOMAIN loads : loads[l].key = key /\ ~Settled(loads[l]) }

\* variant of the test below: a caller never finds a load in flight
AlreadyLoading_Never(key) == FALSE

\* const loading = loadingPromises.get(cacheKey); if (loading)
AlreadyLoading(key) == key \in DOMAIN loadingPromises

\* Map.prototype.delete on a Map kept as a function
MapWithout(m, key) == [k \in DOMAIN m \ {key} |-> m[k]]

\* what the steps of the font loader leave alone
exceptFonts == << cacheVars, routeVars, timerVars, fetches, boot, paramsA, paramsB, keyLog,
                  lastInfo, validation, pipelines, clusterVars >>

\* loadFontVariant(fontName, weight) up to its first await: a font in
\* fontCache is returned; a load in flight is returned as it is; otherwise the
\* load promise is created, runs up to localFile.exists(), is stored in
\* loadingPromises, and the caller awaits it inside try/finally
LoadFontVariant(c, fontName, weight) ==
  /\ callers[c].pc \in { "idle", "done" }
  /\ LET key == getCacheKey(fontName, weight)
     IN  IF key \in DOMAIN fontCache
         THEN /\ callers' = [callers EXCEPT ![c] =
                   [pc |-> "done", key |-> key, load |-> NoLoad, result |-> "cached"]]
              /\ UNCHANGED << fontCache, loadingPromises, loads >>
         ELSE IF AlreadyLoading(key)
         THEN /\ callers' = [callers EXCEPT ![c] =
                   [pc |-> "shares", key |-> key, load |-> loadingPromises[key],
                    result |-> "none"]]
              /\ UNCHANGED << fontCache, loadingPromises, loads >>
         ELSE /\ Len(loads) < MaxLoads
              /\ loads' = Append(loads, [key |-> key, pc |-> "exists"])
              /\ loadingPromises' = (key :> (Len(loads) + 1)) @@ loadingPromises
              /\ callers' = [callers EXCEPT ![c] =
                   [pc |-> "awaits", key |-> key, load |-> Len(loads) + 1,
                    result |-> "none"]]
              /\ UNCHANGED fontCache
  /\ UNCHANGED exceptFonts

\* await localFile.exists() returns
LocalExists(l, exists) ==
  /\ l \in DOMAIN loads /\ loads[l].pc = "exists"
  /\ loads' = [loads EXCEPT ![l].pc = IF exists THEN "read" ELSE "css"]
  /\ UNCHANGED << fontCache, loadingPromises, callers, exceptFonts >>

\* await localFile.arrayBuffer(): fontCache.set and return, or the read throws
LocalRead(l, ok) ==
  /\ l \in DOMAIN loads /\ loads[l].pc = "read"
  /\ loads' = [loads EXCEPT ![l].pc = IF ok THEN "fulfilled" ELSE "rejected"]
  /\ fontCache' = IF ok THEN (loads[l].key :> FontData(loads[l].key)) @@ fontCache
                        ELSE fontCache
  /\ UNCHANGED << loadingPromises, callers, exceptFonts >>

\* await fetchFontCss(...): a font URL for the weight or the closest one, or
\* none (and then the load throws), or fetchFontCss throws
FontCssReturns(l, found) ==
  /\ l \in DOMAIN loads /\ loads[l].pc = "css"
  /\ loads' = [loads EXCEPT ![l].pc = IF found THEN "download" ELSE "rejected"]
  /\ UNCHANGED << fontCache, loadingPromises, callers, exceptFonts >>

\* the download of the font file ends: the bytes, or !response.ok or a
\* network failure, and then the load throws
DownloadEnds(l, ok) ==
  /\ l \in DOMAIN loads /\ loads[l].pc = "download"
  /\ loads' = [loads EXCEPT ![l].pc = IF ok THEN "write" ELSE "rejected"]
  /\ UNCHANGED << fontCache, loadingPromises, callers, exceptFonts >>

\* the local copy is written, or writing fails and is ignored: fontCache.set
\* and return
FontStored(l) ==
  /\ l \in DOMAIN loads /\ loads[l].pc = "write"
  /\ loads' = [loads EXCEPT ![l].pc = "fulfilled"]
  /\ fontCache' = (loads[l].key :> FontData(loads[l].key)) @@ fontCache
  /\ UNCHANGED << loadingPromises, callers, exceptFonts >>

\* the caller that created the load resumes after  await loadPromise : the
\* finally deletes the key from loadingPromises
CreatorResumes(c) ==
  /\ callers[c].pc = "awaits"
  /\ Settled(loads[callers[c].load])
  /\ loadingPromises' = MapWithout(loadingPromises, callers[c].key)
  /\ callers' = [callers EXCEPT ![c].pc = "done", ![c].result = loads[callers[c].load].pc]
  /\ UNCHANGED << fontCache, loads, exceptFonts >>

\* a caller that returned the load in flight gets its outcome
SharerResumes(c) ==
  /\ callers[c].pc = "shares"
  /\ Settled(loads[callers[c].load])
  /\ callers' = [callers EXCEPT ![c].pc = "done", ![c].result = loads[callers[c].load].pc]
  /\ UNCHANGED << fontCache, loadingPromises, loads, exceptFonts >>

NextFonts ==
  \/ \E c \in Reqs, fontName \in FontNames, weight \in FontWeights :
       LoadFontVariant(c, fontName, weight)
  \/ \E l \in 1..MaxLoads, exists \in BOOLEAN : LocalExists(l, exists)
  \/ \E l \in 1..MaxLoads, ok \in BOOLEAN : LocalRead(l, ok)
  \/ \E l \in 1..MaxLoads, found \in BOOLEAN : FontCssReturns(l, found)
  \/ \E l \in 1..MaxLoads, ok \in BOOLEAN : DownloadEnds(l, ok)
  \/ \E l \in 1..MaxLoads : FontStored(l)
  \/ \E c \in Reqs : CreatorResumes(c)
  \/ \E c \in Reqs : SharerResumes(c)

\* two callers of loadFontVariant, the cache at rest in memory mode
SpecFonts == InitWith({ "memory" }, { 2 }) /\ [][NextFonts]_vars

---------------------------------------------------------------------------
(* C38 *)

\* C38: font loading is single-flight per variant.  After every step, each
\* cache key has at most one load in progress and a key in loadingPromises
\* names a load whose creator has not yet run its finally; the step in which
\* the creator resumes after the load has settled, fulfilled or rejected,
\* removes the key from loadingPromises; and a call for a key that is in
\* fontCache returns the cached font without creating a load.
C38_SingleFlight ==
  [][ /\ \A fontName \in FontNames, weight \in FontWeights :
           LET key == getCacheKey(fontName, weight)
           IN  /\ Cardinality(InProgress(key)') <= 1
               /\ key \in DOMAIN loadingPromises'
                    => \E c \in Reqs : /\ callers'[c].pc = "awaits"
                                       /\ callers'[c].load = loadingPromises'[key]
               /\ \A c \in Reqs :
                    (key \in DOMAIN fontCache /\ LoadFontVariant(c, fontName, weight))
                      => /\ loads' = loads
                         /\ callers'[c].pc = "done" /\ callers'[c].result = "cached"
      /\ \A c \in Reqs :
           CreatorResumes(c) => callers[c].key \notin DOMAIN loadingPromises'
    ]_vars

\* two callers share one download in progress
C38_Witness ==
  \E c1, c2 \in Reqs :
    /\ callers[c1].pc = "awaits" /\ callers[c2].pc = "shares"
    /\ callers[c1].load = callers[c2].load
    /\ loads[callers[c1].load].pc = "download"

---------------------------------------------------------------------------
(* The cluster master: spawnWorker, the exited callback, shutdown *)

\* the most worker processes spawned in one behaviour
MaxSpawns == 4

\* exit codes of a worker: a clean exit, a crash, death by SIGTERM
ExitCodes == { 0, 1, 143 }

\* the worker processes that are running
Live == { pid \in DOMAIN procs : procs[pid].status = "running" }

\* the workers that have crashed and whose exited callback has not run yet
Crashed == { pid \in DOMAIN procs : procs[pid].status = "exited" /\ procs[pid].exitCode # 0 }

\* variant of the test below: respawn whenever the exit code is not 0
ShouldRespawn_IgnoresShutdown(down, exitCode) == exitCode # 0

\* if (!shuttingDown && exitCode !== 0)
ShouldRespawn(down, exitCode) == ~down /\ exitCode # 0

\* what the steps of the cluster leave alone
exceptCluster == << cacheVars, routeVars, timerVars, fetches, boot, paramsA, paramsB, keyLog,
                    lastInfo, validation, pipelines, fontVars >>

\* a worker process ends, by itself or by a signal, with an exit code
WorkerExits(pid, code) ==
  /\ pid \in Live
  /\ code \in ExitCodes
  /\ code = 0 \/ shuttingDown \/ Len(procs) + Cardinality(Crashed) < MaxSpawns
  /\ procs' = [procs EXCEPT ![pid].status = "exited", ![pid].exitCode = code]
  /\ UNCHANGED << workerCount, workers, shuttingDown, master, exceptCluster >>

\* worker.exited.then(...): workers.delete(id), and spawnWorker(id) if the
\* master is not shutting down and the exit code is not 0
ExitedCallback(pid) ==
  /\ master = "running"
  /\ pid \in DOMAIN procs /\ procs[pid].status = "exited"
  /\ LET id == procs[pid].id
         cl == [workers |-> MapWithout(workers, id),
                procs |-> [procs EXCEPT ![pid].status = "reaped"]]
     IN  IF ShouldRespawn(shuttingDown, procs[pid].exitCode)
         THEN LET sp == spawnWorker(cl, id)
              IN  /\ workers' = sp.workers
                  /\ procs' = [sp.procs EXCEPT ![pid].replacement = Len(sp.procs)]
         ELSE workers' = cl.workers /\ procs' = cl.procs
  /\ UNCHANGED << workerCount, shuttingDown, master, exceptCluster >>

\* SIGINT or SIGTERM reaches the master: shutdown().  A second signal returns
\* at once; the first sets the flag and kills every worker in the Map
Shutdown ==
  /\ master = "running"
  /\ ~shuttingDown
  /\ shuttingDown' = TRUE
  /\ procs' = [pid \in DOMAIN procs |->
                 IF \E id \in DOMAIN workers : workers[id] = pid
                 THEN [procs[pid] EXCEPT !.signalled = TRUE]
                 ELSE procs[pid]]
  /\ UNCHANGED << workerCount, workers, master, exceptCluster >>

\* the timeout of shutdown fires: process.exit(0)
MasterExits ==
  /\ master = "running"
  /\ shuttingDown
  /\ master' = "exited"
  /\ UNCHANGED << workerCount, workers, procs, shuttingDown, exceptCluster >>

\* a worker that the master has killed ends: SIGTERM has its default effect
KilledWorkerExits(pid) ==
  /\ pid \in Live /\ procs[pid].signalled
  /\ \E code \in ExitCodes : WorkerExits(pid, code)

NextCluster ==
  \/ \E pid \in 1..MaxSpawns, code \in ExitCodes : WorkerExits(pid, code)
  \/ \E pid \in 1..MaxSpawns : ExitedCallback(pid)
  \/ Shutdown
  \/ MasterExits

\* a master started with one or two workers, everything else at rest
InitClusterMaster ==
  /\ InitCache({ "memory" }, { 2 })
  /\ fetches = [k \in FetchKinds |-> FetchIdle]
  /\ boot = 0
  /\ paramsA = << >>
  /\ paramsB = << >>
  /\ keyLog = {}
  /\ lastInfo = NoInfo
  /\ validation = [r \in Reqs |-> ValidationIdle]
  /\ InitPipelines
  /\ InitFonts
  /\ InitCluster(WorkerCounts)

SpecCluster == InitClusterMaster /\ [][NextCluster]_vars

\* the same with the operating system delivering the master's signals: a
\* killed worker that keeps running ends
SpecClusterFair ==
  SpecCluster /\ \A pid \in 1..MaxSpawns : WF_vars(KilledWorkerExits(pid))

---------------------------------------------------------------------------
(* C39 *)

\* C39: the cluster's respawn rule.  The exited callback of a worker spawns
\* exactly one worker, with the same id, when the exit code is not 0 and
\* shutdown has not begun, and none otherwise; no other step spawns a
\* worker; the running workers never outnumber the configured count; and
\* once shutdown has begun the number of running workers drops to zero.
C39_RespawnRule ==
  /\ [][ /\ \A pid \in DOMAIN procs :
              ExitedCallback(pid) =>
                IF ~shuttingDown /\ procs[pid].exitCode # 0
                THEN /\ Len(procs') = Len(procs) + 1
                     /\ procs'[Len(procs')].id = procs[pid].id
                     /\ procs'[Len(procs')].status = "running"
                     /\ workers'[procs[pid].id] = Len(procs')
                ELSE Len(procs') = Len(procs)
         /\ (\A pid \in DOMAIN procs : ~ExitedCallback(pid)) => Len(procs') = Len(procs)
         /\ Cardinality(Live') <= workerCount
       ]_vars
  /\ (shuttingDown ~> (Live = {}))

\* a crashed worker was replaced by one with its id, shutdown has begun since,
\* and no worker is running
C39_Witness ==
  /\ shuttingDown /\ Live = {}
  /\ \E pid \in DOMAIN procs :
       /\ procs[pid].replacement # 0
       /\ procs[procs[pid].replacement].id = procs[pid].id

====
